---- MODULE Spec2Model ----
(***************************************************************************)
(* A model of the album-wiz backend: the cover-geometry extractor          *)
(* (backend/app/process/cover_extractor.py and its earlier variant         *)
(* backend/app/square.py) and the request handlers of backend/app/main.py  *)
(* that call it.                                                           *)
(*                                                                         *)
(* Numbers.  The code works on numpy integers and IEEE doubles.  The       *)
(* model keeps every quantity the code compares exact:                     *)
(*   - a coordinate of a detected line is an integer;                      *)
(*   - a slope, an intercept and an intersection coordinate is a rational  *)
(*     <<n, d>> with d > 0 in lowest terms;                                *)
(*   - a parallel similarity |cos| is carried as its square, a pair        *)
(*     <<dot^2, |v1|^2 * |v2|^2>>, and compared by cross multiplication;   *)
(*   - a proximity threshold is a rational <<n, d>>, and dist < threshold  *)
(*     is decided on the squares.                                          *)
(* Rounding of the doubles is not modelled.                                *)
(***************************************************************************)
EXTENDS Integers, Sequences, FiniteSets, TLC

VARIABLES
    pc,             \* the calls made so far, as a control point of the specification
    lines,          \* filter_unique_lines: the raw line list given to it
    threshold,      \* filter_unique_lines: the proximity threshold given to it
    unique_lines,   \* filter_unique_lines: the returned list
    refiltered,     \* filter_unique_lines applied to unique_lines
    line_1,         \* find_lines_intersection: its first line
    line_2,         \* find_lines_intersection: its second line
    intersection,   \* find_lines_intersection: the returned value
    pair_1,         \* find_corners_from_lines: the first line pair given to it
    pair_2,         \* find_corners_from_lines: the second line pair given to it
    recorded,       \* find_corners_from_lines: the corners list at the end of its loop
    found,          \* find_corners_from_lines: the returned value
    corners,        \* reformat_corners: the corner list given to it
    reformatted,    \* cover_extractor.reformat_corners: the returned value
    sq_reformatted, \* square.reformat_corners: the returned value
    found_pairs,    \* find_most_parallel_pairs: line_pairs after its first loop
    parallel_pairs, \* detect_corners: what find_most_parallel_pairs returned
    sq_pairs,       \* square.find_parallel_pairs: line_pairs when it returns or raises
    sq_raised,      \* square.find_parallel_pairs: the exception raised, "none" if none
    image,          \* crop_to_square: the image given to it
    stages,         \* crop_to_square: the stages run, in the order they ran
    chosen,         \* detect_corners: the returned value
    result,         \* crop_to_square: the returned value
    escaped,        \* crop_to_square: the exception that left it, "none" if none
    drawn_on,       \* crop_to_square: the arrays written in place during the call
    paired_on,      \* detect_corners: the arguments of its pair finder
    sq_deduped,     \* square.detect_corners: unique_lines and the threshold they were made with
    sq_paired_on,   \* square.detect_corners: the arguments that reach its pair finder
    sq_corners,     \* square.detect_corners: what find_best_corners returned
    sq_chosen,      \* square.detect_corners: the returned value
    sq_escaped,     \* square.detect_corners: the exception that left it, "none" if none
    upload,         \* upload_image: the request
    extracted,      \* upload_image: what extract_album_cover returned
    vectorized,     \* upload_image: the bytes given to vectorize_image
    response,       \* upload_image: the response, "pending" before it
    given_pairs,    \* find_best_corners: the list of line pairs given to it
    sets_of_corners, \* find_best_corners: sets_of_corners at the end of its loop
    best_corners,   \* find_best_corners: the returned value
    sq_given_pairs, \* square.find_best_corners: what find_parallel_pairs returned
    sq_sets,        \* square.find_best_corners: sets_of_corners at the end of its loop
    sq_best,        \* square.find_best_corners: the returned value
    sq_best_raised, \* square.find_best_corners: the exception raised, "none" if none
    calls,          \* crop_to_square: the calls in progress at the same time
    scratch,        \* DEBUGGING_DIR: the snapshot files and what each holds
    albums,         \* the committed rows of the table albums: album id -> artist id
    artists,        \* the committed rows of the table artists: the artist ids
    requests,       \* delete_album: the requests in progress, each in its transaction
    tmp_files,      \* the files under /tmp
    csv_upload      \* upload_csv: the request and how far it has come

dedupVars == <<lines, threshold, unique_lines, refiltered>>

intersectVars == <<line_1, line_2, intersection, pair_1, pair_2, recorded, found>>

reformatVars == <<corners, reformatted, sq_reformatted>>

pairVars == <<found_pairs, parallel_pairs, sq_pairs, sq_raised>>

cropVars ==
    <<image, stages, chosen, result, escaped, drawn_on, paired_on, sq_corners,
      sq_chosen, sq_escaped, sq_deduped, sq_paired_on>>

uploadVars == <<upload, extracted, vectorized, response>>

bestVars ==
    <<given_pairs, sets_of_corners, best_corners, sq_given_pairs, sq_sets, sq_best,
      sq_best_raised>>

serviceVars == <<calls, scratch, albums, artists, requests, tmp_files, csv_upload>>

vars ==
    <<pc, dedupVars, intersectVars, reformatVars, pairVars, cropVars, uploadVars,
      bestVars, serviceVars>>

\* Python's None, where a function returns either None or a non-empty
\* tuple or array.  (No function of the model returns both None and an
\* empty list.)
Null == <<>>

----------------------------------------------------------------------------
(* Bounds of the model.                                                    *)

\* The longest line list given to filter_unique_lines.
MaxLines == 3

\* Endpoints of the two lines given to find_lines_intersection lie on the
\* grid (0..MaxCoord) x (0..MaxCoord).
MaxCoord == 2

\* Corners given to reformat_corners lie on the grid of the multiples of
\* 50 up to 50 * MaxCorner in both directions.
MaxCorner == 2

----------------------------------------------------------------------------
(* Integer and rational arithmetic.                                        *)

Abs(n) == IF n < 0 THEN -n ELSE n

Min(a, b) == IF a < b THEN a ELSE b

RECURSIVE GCD(_, _)
GCD(a, b) == IF b = 0 THEN a ELSE GCD(b, a % b)

\* The rational n/d (d # 0) in lowest terms with a positive denominator.
Rat(n, d) ==
    LET g == GCD(Abs(n), Abs(d))
        s == IF d < 0 THEN -1 ELSE 1
    IN  <<(s * n) \div g, (s * d) \div g>>

RInt(n) == <<n, 1>>

RAdd(a, b) == Rat(a[1] * b[2] + b[1] * a[2], a[2] * b[2])

RSub(a, b) == Rat(a[1] * b[2] - b[1] * a[2], a[2] * b[2])

RMul(a, b) == Rat(a[1] * b[1], a[2] * b[2])

\* a / b for b # 0.
RDiv(a, b) == Rat(a[1] * b[2], a[2] * b[1])

RLess(a, b) == a[1] * b[2] < b[1] * a[2]

\* Python's int(x) of a float: truncation toward zero.
Trunc(a) == IF a[1] >= 0 THEN a[1] \div a[2] ELSE -((-a[1]) \div a[2])

----------------------------------------------------------------------------
(* Lines: <<x1, y1, x2, y2>>, as detect_lines flattens them.               *)

\* The square of calculate_line_length(line); the code compares lengths,
\* and sqrt is strictly increasing.
line_length_sq(line) ==
    (line[3] - line[1]) * (line[3] - line[1])
        + (line[4] - line[2]) * (line[4] - line[2])

\* get_direction_vector(line) before normalisation: <<dx, dy>>.  The code
\* divides by the norm unless the norm is 0, where it returns (0.0, 0.0).
get_direction_vector(line) == <<line[3] - line[1], line[4] - line[2]>>

\* A variant of calculate_parallel_similarity in which a zero-length
\* line has the direction (1.0, 0.0) in the place of (0.0, 0.0).
similarity_with_default_direction(l1, l2) ==
    LET v1 == IF line_length_sq(l1) = 0 THEN <<1, 0>> ELSE get_direction_vector(l1)
        v2 == IF line_length_sq(l2) = 0 THEN <<1, 0>> ELSE get_direction_vector(l2)
        n1 == IF line_length_sq(l1) = 0 THEN 1 ELSE line_length_sq(l1)
        n2 == IF line_length_sq(l2) = 0 THEN 1 ELSE line_length_sq(l2)
        dot == v1[1] * v2[1] + v1[2] * v2[2]
    IN  <<dot * dot, n1 * n2>>

\* calculate_parallel_similarity(line_1, line_2), squared:
\* abs(dot(vec_1, vec_2))^2 as the fraction <<num, den>>.  A zero-length
\* line has the direction (0.0, 0.0), so its similarity to any line is 0.
calculate_parallel_similarity(l1, l2) ==
    LET v1 == get_direction_vector(l1)
        v2 == get_direction_vector(l2)
        n1 == line_length_sq(l1)
        n2 == line_length_sq(l2)
        dot == v1[1] * v2[1] + v1[2] * v2[2]
    IN  IF n1 = 0 \/ n2 = 0 THEN <<0, 1>> ELSE <<dot * dot, n1 * n2>>

\* similarity > p/q for a cut-off 0 <= p/q (0.92 = 92/100, 0.9 = 9/10).
SimGreater(s, p, q) == s[1] * q * q > p * p * s[2]

\* similarity < p/q.
SimLess(s, p, q) == s[1] * q * q < p * p * s[2]

\* similarity s > similarity t.
SimGT(s, t) == s[1] * t[2] > t[1] * s[2]

DistSq(x1, y1, x2, y2) == (x1 - x2) * (x1 - x2) + (y1 - y2) * (y1 - y2)

\* dist < threshold for the threshold t = <<n, d>>, d > 0.
DistLess(dsq, t) == t[1] > 0 /\ dsq * t[2] * t[2] < t[1] * t[1]

\* lines_proximity(line_1, line_2, threshold): some endpoint of line_1 is
\* nearer than the threshold to some endpoint of line_2.
lines_proximity(l1, l2, t) ==
    \E i \in {1, 3} : \E j \in {1, 3} :
        DistLess(DistSq(l1[i], l1[i + 1], l2[j], l2[j + 1]), t)

----------------------------------------------------------------------------
(* filter_unique_lines.                                                    *)

\* The test of the inner loop: curr_line and pivot_line are close and
\* their similarity is > 0.92.
similar_lines(curr, pivot, t) ==
    /\ lines_proximity(curr, pivot, t)
    /\ SimGreater(calculate_parallel_similarity(curr, pivot), 92, 100)

\* The index the inner loop breaks at: the first accumulated line similar
\* to curr_line, 0 when the loop ends without a break.
first_similar(unique, curr, t) ==
    LET hits == {i \in 1..Len(unique) : similar_lines(curr, unique[i], t)}
    IN  IF hits = {} THEN 0
        ELSE CHOOSE i \in hits : \A j \in hits : i <= j

\* A variant of remove_append that puts curr at the position of the
\* removed line.
replace_in_place(unique, i, curr) == [unique EXCEPT ![i] = curr]

\* list.remove(unique[i]) followed by list.append(curr).
remove_append(unique, i, curr) ==
    Append(SubSeq(unique, 1, i - 1) \o SubSeq(unique, i + 1, Len(unique)), curr)

\* A variant of filter_step in which a line as long as the accumulated
\* one replaces it.
filter_step_ties(unique, curr, t) ==
    IF unique = <<>> THEN <<curr>>
    ELSE LET i == first_similar(unique, curr, t)
         IN  IF i = 0 THEN Append(unique, curr)
             ELSE IF line_length_sq(curr) >= line_length_sq(unique[i])
                  THEN remove_append(unique, i, curr)
                  ELSE unique

\* One iteration of the outer loop of filter_unique_lines.
filter_step(unique, curr, t) ==
    IF unique = <<>> THEN <<curr>>
    ELSE LET i == first_similar(unique, curr, t)
         IN  IF i = 0 THEN Append(unique, curr)
             ELSE IF line_length_sq(curr) > line_length_sq(unique[i])
                  THEN remove_append(unique, i, curr)
                  ELSE unique

RECURSIVE filter_from(_, _, _, _)
filter_from(unique, ls, k, t) ==
    IF k > Len(ls) THEN unique
    ELSE filter_from(filter_step(unique, ls[k], t), ls, k + 1, t)

filter_unique_lines(ls, t) == filter_from(<<>>, ls, 1, t)

----------------------------------------------------------------------------
(* find_lines_intersection and find_corners_from_lines.                    *)

\* The tuple (None, None) that find_lines_intersection returns for two
\* lines it finds parallel.
NoPoint == <<Null, Null>>

\* A variant of find_lines_intersection with a slip in the branch of a
\* vertical first line: x_intersect is taken from the second line.
find_lines_intersection_x3(l1, l2) ==
    LET x1 == l1[1]
        y1 == l1[2]
        x2 == l1[3]
        y2 == l1[4]
        x3 == l2[1]
        y3 == l2[2]
        x4 == l2[3]
        y4 == l2[4]
        vertical_1 == x1 = x2
        vertical_2 == x3 = x4
        slope_1 == Rat(y2 - y1, x2 - x1)
        slope_2 == Rat(y4 - y3, x4 - x3)
        intercept_1 == RSub(RInt(y1), RMul(slope_1, RInt(x1)))
        intercept_2 == RSub(RInt(y3), RMul(slope_2, RInt(x3)))
    IN  IF vertical_1 /\ vertical_2 THEN NoPoint
        ELSE IF vertical_1
        THEN <<RInt(x3), RAdd(RMul(slope_2, RInt(x3)), intercept_2)>>
        ELSE IF vertical_2
        THEN <<RInt(x3), RAdd(RMul(slope_1, RInt(x3)), intercept_1)>>
        ELSE IF slope_1 # slope_2
        THEN LET x_intersect ==
                     RDiv(RSub(intercept_2, intercept_1), RSub(slope_1, slope_2))
             IN  <<x_intersect, RAdd(RMul(x_intersect, slope_1), intercept_1)>>
        ELSE NoPoint

\* find_lines_intersection(line_1, line_2): a point <<x, y>> of two
\* rationals, or NoPoint.
find_lines_intersection(l1, l2) ==
    LET x1 == l1[1]
        y1 == l1[2]
        x2 == l1[3]
        y2 == l1[4]
        x3 == l2[1]
        y3 == l2[2]
        x4 == l2[3]
        y4 == l2[4]
        vertical_1 == x1 = x2
        vertical_2 == x3 = x4
        slope_1 == Rat(y2 - y1, x2 - x1)
        slope_2 == Rat(y4 - y3, x4 - x3)
        intercept_1 == RSub(RInt(y1), RMul(slope_1, RInt(x1)))
        intercept_2 == RSub(RInt(y3), RMul(slope_2, RInt(x3)))
    IN  IF vertical_1 /\ vertical_2 THEN NoPoint
        ELSE IF vertical_1
        THEN <<RInt(x1), RAdd(RMul(slope_2, RInt(x1)), intercept_2)>>
        ELSE IF vertical_2
        THEN <<RInt(x3), RAdd(RMul(slope_1, RInt(x3)), intercept_1)>>
        ELSE IF slope_1 # slope_2
        THEN LET x_intersect ==
                     RDiv(RSub(intercept_2, intercept_1), RSub(slope_1, slope_2))
             IN  <<x_intersect, RAdd(RMul(x_intersect, slope_1), intercept_1)>>
        ELSE NoPoint

\* A variant of appended_corner that records the corner (0, 0) for a
\* failed intersection, as `int(intersection[0] or 0)` would.
appended_corner_default(p) ==
    IF p[1] = Null \/ p[2] = Null THEN << <<RInt(0), RInt(0)>> >>
    ELSE << <<RInt(Trunc(p[1])), RInt(Trunc(p[2]))>> >>

\* corners.append((int(intersection[0]), int(intersection[1]))) inside
\* `try ... except TypeError: continue`: int(None) raises the TypeError,
\* so (None, None) appends nothing; any other intersection appends the
\* point with both coordinates truncated by int().
appended_corner(p) ==
    IF p[1] = Null \/ p[2] = Null THEN <<>>
    ELSE << <<RInt(Trunc(p[1])), RInt(Trunc(p[2]))>> >>

\* The body of the double loop of find_corners_from_lines for one
\* combination: `intersection is None` is never true of a tuple, so the
\* intersection always reaches the append.
corner_of(l1, l2) == appended_corner(find_lines_intersection(l1, l2))

\* The list `corners` at the end of the double loop of
\* find_corners_from_lines.
corners_recorded(p1, p2) ==
    corner_of(p1[1], p2[1]) \o corner_of(p1[1], p2[2])
        \o corner_of(p1[2], p2[1]) \o corner_of(p1[2], p2[2])

\* if len(corners) != 4: return None
four_corners(cs) == IF Len(cs) # 4 THEN Null ELSE cs

\* find_corners_from_lines(line_pairs, img): the four corners, or None.
find_corners_from_lines(line_pairs) ==
    IF Len(line_pairs) < 2 THEN Null
    ELSE four_corners(corners_recorded(line_pairs[1], line_pairs[2]))

----------------------------------------------------------------------------
(* reformat_corners.                                                       *)

\* A variant of center_of that takes the mean of the first and the last
\* corner, which are opposite corners in the order find_corners_from_lines
\* lists them in, and not in the order reformat_corners returns.
center_of_first_and_last(cs) ==
    <<RDiv(RAdd(cs[1][1], cs[4][1]), RInt(2)), RDiv(RAdd(cs[1][2], cs[4][2]), RInt(2))>>

\* np.mean over the first four corners: <<x_center, y_center>>.
center_of(cs) ==
    <<RDiv(RAdd(RAdd(cs[1][1], cs[2][1]), RAdd(cs[3][1], cs[4][1])), RInt(4)),
      RDiv(RAdd(RAdd(cs[1][2], cs[2][2]), RAdd(cs[3][2], cs[4][2])), RInt(4))>>

\* A variant of slot_of with the tests on y the wrong way round: y grows
\* downward in an image, and this variant takes the larger y for the top.
slot_of_y_up(c, center) ==
    IF RLess(c[1], center[1]) /\ RLess(center[2], c[2]) THEN "top_left"
    ELSE IF RLess(center[1], c[1]) /\ RLess(center[2], c[2]) THEN "top_right"
    ELSE IF RLess(center[1], c[1]) /\ RLess(c[2], center[2]) THEN "bottom_right"
    ELSE IF RLess(c[1], center[1]) /\ RLess(c[2], center[2]) THEN "bottom_left"
    ELSE "none"

\* The if/elif chain of cover_extractor.reformat_corners: the slot the
\* corner is assigned to, "none" when no branch is taken.
slot_of(c, center) ==
    IF RLess(c[1], center[1]) /\ RLess(c[2], center[2]) THEN "top_left"
    ELSE IF RLess(center[1], c[1]) /\ RLess(c[2], center[2]) THEN "top_right"
    ELSE IF RLess(center[1], c[1]) /\ RLess(center[2], c[2]) THEN "bottom_right"
    ELSE IF RLess(c[1], center[1]) /\ RLess(center[2], c[2]) THEN "bottom_left"
    ELSE "none"

\* The value a slot holds after the loop over the four corners: the last
\* corner assigned to it, None when there is none.
slot_value(cs, center, slot) ==
    LET hits == {i \in 1..4 : slot_of(cs[i], center) = slot}
    IN  IF hits = {} THEN Null
        ELSE cs[CHOOSE i \in hits : \A j \in hits : j <= i]

\* The end of reformat_corners: None when one of top_left, top_right,
\* bottom_right, bottom_left is None, the four in that order otherwise.
all_assigned(slots) ==
    IF \E i \in 1..4 : slots[i] = Null THEN Null ELSE slots

\* The four slots after the loop of cover_extractor.reformat_corners.
slots_around(cs, center) ==
    <<slot_value(cs, center, "top_left"), slot_value(cs, center, "top_right"),
      slot_value(cs, center, "bottom_right"), slot_value(cs, center, "bottom_left")>>

\* cover_extractor.reformat_corners(corners).
reformat_corners(cs) ==
    IF Len(cs) < 4 THEN Null
    ELSE all_assigned(slots_around(cs, center_of(cs)))

\* The flags of square.reformat_corners: right iff x > x_center, else
\* left; top iff y < y_center, else bottom.
sq_slot_of(c, center) ==
    LET right == RLess(center[1], c[1])
        top == RLess(c[2], center[2])
    IN  IF top /\ ~right THEN "top_left"
        ELSE IF top /\ right THEN "top_right"
        ELSE IF ~top /\ right THEN "bottom_right"
        ELSE "bottom_left"

sq_slot_value(cs, center, slot) ==
    LET hits == {i \in 1..4 : sq_slot_of(cs[i], center) = slot}
    IN  IF hits = {} THEN Null
        ELSE cs[CHOOSE i \in hits : \A j \in hits : j <= i]

\* The four slots after the loop of square.reformat_corners.
sq_slots_around(cs, center) ==
    <<sq_slot_value(cs, center, "top_left"), sq_slot_value(cs, center, "top_right"),
      sq_slot_value(cs, center, "bottom_right"),
      sq_slot_value(cs, center, "bottom_left")>>

\* square.reformat_corners(corners), for a list of four corners.
sq_reformat_corners(cs) == all_assigned(sq_slots_around(cs, center_of(cs)))

----------------------------------------------------------------------------
(* find_most_parallel_pairs (cover_extractor.py) and find_parallel_pairs   *)
(* (square.py).  A line pair is <<line, next_line>>.                       *)

\* A variant of partner_candidates without the `continue` for a next_line
\* close to the line.
partner_candidates_near(ls, k, t) ==
    {j \in 1..Len(ls) :
        /\ ls[j] # ls[k]
        /\ SimGT(calculate_parallel_similarity(ls[k], ls[j]), <<0, 1>>)}

\* The inner loop over next_line for ls[k]: the indices that pass the
\* three `continue` tests and raise best_similarity above 0.
partner_candidates(ls, k, t) ==
    {j \in 1..Len(ls) :
        /\ ls[j] # ls[k]
        /\ ~lines_proximity(ls[j], ls[k], t)
        /\ SimGT(calculate_parallel_similarity(ls[k], ls[j]), <<0, 1>>)}

\* The index of the line that best_pair holds for ls[k] after the inner
\* loop: the first candidate of the greatest similarity; 0 when best_pair
\* is still None.
best_partner(ls, k, t) ==
    LET cand == partner_candidates(ls, k, t)
        sim(j) == calculate_parallel_similarity(ls[k], ls[j])
        top == {j \in cand : \A i \in cand : ~SimGT(sim(i), sim(j))}
    IN  IF cand = {} THEN 0
        ELSE CHOOSE j \in top : \A i \in top : j <= i

\* A variant of new_pair that tests the order (best_1, best_2) only.
new_pair_same_order(line_pairs, best_pair) ==
    \A i \in 1..Len(line_pairs) :
        ~(best_pair[1] = line_pairs[i][1] /\ best_pair[2] = line_pairs[i][2])

\* new_pair: no pair of line_pairs holds the two lines of best_pair, in
\* either order.
new_pair(line_pairs, best_pair) ==
    \A i \in 1..Len(line_pairs) :
        ~ \/ (best_pair[1] = line_pairs[i][1] /\ best_pair[2] = line_pairs[i][2])
          \/ (best_pair[1] = line_pairs[i][2] /\ best_pair[2] = line_pairs[i][1])

\* line_pairs after the outer loop has handled ls[k..]: a line without a
\* partner is skipped (cover_extractor.py:431-432).
RECURSIVE line_pairs_from(_, _, _, _)
line_pairs_from(acc, ls, k, t) ==
    IF k > Len(ls) THEN acc
    ELSE LET j == best_partner(ls, k, t)
             best_pair == <<ls[k], ls[j]>>
         IN  IF j = 0 THEN line_pairs_from(acc, ls, k + 1, t)
             ELSE IF new_pair(acc, best_pair)
             THEN line_pairs_from(Append(acc, best_pair), ls, k + 1, t)
             ELSE line_pairs_from(acc, ls, k + 1, t)

\* line_pairs at cover_extractor.py:448.
all_line_pairs(ls, t) == line_pairs_from(<<>>, ls, 1, t)

\* similarities[i]: the similarity of the two lines of a pair.
pair_similarity(pair) == calculate_parallel_similarity(pair[1], pair[2])

\* The orders np.argsort(similarities)[::-1] can put line_pairs in: the
\* permutations of its indices along which the similarity never grows.
\* argsort's default sort is not stable, so the order of two pairs of
\* equal similarity is not fixed by the code.
RECURSIVE orders_from(_, _)
orders_from(line_pairs, left) ==
    IF left = {} THEN {<<>>}
    ELSE LET top == {i \in left : \A j \in left :
                        ~SimGT(pair_similarity(line_pairs[j]),
                               pair_similarity(line_pairs[i]))}
         IN  UNION {{<<i>> \o rest : rest \in orders_from(line_pairs, left \ {i})} :
                       i \in top}

argsort_orders(line_pairs) == orders_from(line_pairs, 1..Len(line_pairs))

\* sorted_pairs = [line_pairs[i] for i in sorted_indices]
sorted_pairs_of(line_pairs, order) ==
    [i \in 1..Len(line_pairs) |-> line_pairs[order[i]]]

\* The while loop of cover_extractor.py:456-461: the first pair after
\* sorted_pairs[0] whose first line has similarity < 0.9 with the first
\* line of sorted_pairs[0], as a list of at most one pair.
second_axis(sorted_pairs) ==
    LET ok == {i \in 2..Len(sorted_pairs) :
                  SimLess(calculate_parallel_similarity(sorted_pairs[1][1],
                                                        sorted_pairs[i][1]), 9, 10)}
    IN  IF ok = {} THEN <<>>
        ELSE <<sorted_pairs[CHOOSE i \in ok : \A j \in ok : i <= j]>>

\* cover_extractor.py:448-468: best_pairs, from line_pairs and the order
\* argsort has put them in.
select_best_pairs(line_pairs, order) ==
    LET sorted_pairs == sorted_pairs_of(line_pairs, order)
        best_two == <<sorted_pairs[1]>> \o second_axis(sorted_pairs)
    IN  IF line_pairs = <<>> THEN <<>>
        ELSE IF Len(best_two) < 2 /\ Len(sorted_pairs) > 1
        THEN Append(best_two, sorted_pairs[2])
        ELSE best_two

\* find_most_parallel_pairs(lines, threshold), for an order that argsort
\* can return.
find_most_parallel_pairs(ls, t, order) ==
    select_best_pairs(all_line_pairs(ls, t), order)

\* square.find_parallel_pairs(lines, threshold): what it returns, or the
\* exception it raises.  best_pair is unpacked without a test for None
\* (square.py:195), a None best_pair is appended when line_pairs is
\* still empty (square.py:201), and a None in line_pairs is unpacked by
\* the next line's loop (square.py:196): each unpacking of None raises
\* TypeError.
RECURSIVE sq_line_pairs_from(_, _, _, _)
sq_line_pairs_from(acc, ls, k, t) ==
    IF k > Len(ls) THEN [raised |-> "none", line_pairs |-> acc]
    ELSE LET j == best_partner(ls, k, t)
             best_pair == IF j = 0 THEN Null ELSE <<ls[k], ls[j]>>
         IN  IF acc = <<>> THEN sq_line_pairs_from(<<best_pair>>, ls, k + 1, t)
             ELSE IF best_pair = Null \/ (\E i \in 1..Len(acc) : acc[i] = Null)
             THEN [raised |-> "TypeError", line_pairs |-> acc]
             ELSE IF new_pair(acc, best_pair)
             THEN sq_line_pairs_from(Append(acc, best_pair), ls, k + 1, t)
             ELSE sq_line_pairs_from(acc, ls, k + 1, t)

sq_find_parallel_pairs(ls, t) == sq_line_pairs_from(<<>>, ls, 1, t)

----------------------------------------------------------------------------
(* find_best_corners.                                                      *)

\* Lengths are kept in fixed point, in units of 1/LengthScale.
LengthScale == 100

\* The integer square root of n >= 0, between lo and hi.
RECURSIVE ISqrtIn(_, _, _)
ISqrtIn(n, lo, hi) ==
    IF hi - lo <= 1 THEN lo
    ELSE LET mid == (lo + hi) \div 2
         IN  IF mid * mid <= n THEN ISqrtIn(n, mid, hi) ELSE ISqrtIn(n, lo, mid)

ISqrt(n) == ISqrtIn(n, 0, 46341)

\* dx ** 2 + dy ** 2
sum_of_squares(dx, dy) == RAdd(RMul(dx, dx), RMul(dy, dy))

\* math.sqrt of the rational sq >= 0, in fixed point.
scaled_root(sq) == ISqrt((sq[1] * LengthScale * LengthScale) \div sq[2])

\* calculate_line_length((x1, y1, x2, y2)) for the corners p = (x1, y1)
\* and q = (x2, y2), in fixed point.
calculate_line_length(p, q) ==
    scaled_root(sum_of_squares(RSub(q[1], p[1]), RSub(q[2], p[2])))

\* abs(width / height - 1) for twice the width and twice the height.
ratio_distance(width, height) == <<Abs(width - height), height>>

\* distance_from_1 = abs(width / height - 1) of an ordered corner set, as
\* the fraction <<|width - height|, height>> (the halves cancel).
distance_from_1(c) ==
    ratio_distance(
        calculate_line_length(c[1], c[2]) + calculate_line_length(c[3], c[4]),
        calculate_line_length(c[1], c[4]) + calculate_line_length(c[2], c[3]))

\* The two `continue` tests at the top of the loop body of
\* find_best_corners: the two pairs hold the same two lines, or their
\* first lines have similarity > 0.9.
skip_combination(first_pair, second_pair) ==
    \/ (first_pair[1] = second_pair[1] /\ first_pair[2] = second_pair[2])
    \/ (first_pair[2] = second_pair[1] /\ first_pair[1] = second_pair[2])
    \/ SimGreater(calculate_parallel_similarity(first_pair[1], second_pair[1]), 9, 10)

\* if corners is None: continue
appended_set(r) == IF r = Null THEN <<>> ELSE <<r>>

\* corners = reformat_corners(corners) of the corners a combination has
\* given, and what is appended to sets_of_corners.
reformatted_set(cs) ==
    IF cs = Null THEN <<>> ELSE appended_set(reformat_corners(cs))

\* What one combination appends to sets_of_corners: its reordered
\* corners, or nothing.
corner_set_of(first_pair, second_pair) ==
    IF skip_combination(first_pair, second_pair) THEN <<>>
    ELSE reformatted_set(find_corners_from_lines(<<first_pair, second_pair>>))

\* A variant of sets_of_corners_from that leaves the double loop at the
\* first combination that appends nothing, as `break` in the place of
\* `continue` would.
RECURSIVE sets_until_skip(_, _, _)
sets_until_skip(pairs, i, j) ==
    IF i > Len(pairs) THEN <<>>
    ELSE IF j > Len(pairs) THEN sets_until_skip(pairs, i + 1, i + 2)
    ELSE IF corner_set_of(pairs[i], pairs[j]) = <<>> THEN <<>>
    ELSE corner_set_of(pairs[i], pairs[j]) \o sets_until_skip(pairs, i, j + 1)

\* sets_of_corners after the double loop over pairs[i], pairs[i + 1:]
\* from the combination (i, j) on.
RECURSIVE sets_of_corners_from(_, _, _)
sets_of_corners_from(pairs, i, j) ==
    IF i > Len(pairs) THEN <<>>
    ELSE IF j > Len(pairs) THEN sets_of_corners_from(pairs, i + 1, i + 2)
    ELSE corner_set_of(pairs[i], pairs[j]) \o sets_of_corners_from(pairs, i, j + 1)

\* ratio_distances: distance_from_1 of each set of corners.
ratio_distances(sets) == [i \in 1..Len(sets) |-> distance_from_1(sets[i])]

\* The fraction a is smaller than the fraction b.
ratio_less(a, b) == a[1] * b[2] < b[1] * a[2]

\* A variant of smallest that takes the largest of the distances, as
\* np.argmax would.
largest(ds) ==
    {i \in 1..Len(ds) : \A j \in 1..Len(ds) : ~ratio_less(ds[i], ds[j])}

\* The indices of the smallest of the distances ds.
smallest(ds) ==
    {i \in 1..Len(ds) : \A j \in 1..Len(ds) : ~ratio_less(ds[j], ds[i])}

\* The least element of a non-empty set of indices.
first_index(S) == CHOOSE i \in S : \A j \in S : i <= j

\* np.argmin(ratio_distances): the first index of the smallest distance.
argmin_distance(sets) == first_index(smallest(ratio_distances(sets)))

\* if len(sets_of_corners) == 0: return None, and the set at the argmin
\* otherwise.
best_of(sets) == IF sets = <<>> THEN Null ELSE sets[argmin_distance(sets)]

\* find_best_corners(pairs, img).
find_best_corners(pairs) == best_of(sets_of_corners_from(pairs, 1, 2))

----------------------------------------------------------------------------
(* detect_corners and crop_to_square (cover_extractor.py).                 *)
(*                                                                         *)
(* An image is a record: its width and height, the outcome `seg` of the    *)
(* background segmentation (rembg's remove) on it, "mask" or the class of  *)
(* the exception remove raises, and the lines that the Canny and Hough     *)
(* transforms of detect_lines find in its mask.                            *)

\* proximity_threshold = height * 0.4 if height < width else width * 0.4
proximity_threshold(width, height) == Rat(4 * Min(height, width), 10)

\* A variant of in_bounds that tests the upper bounds only.
in_bounds_upper_only(c, width, height) ==
    /\ ~RLess(RInt(width), c[1])
    /\ ~RLess(RInt(height), c[2])

\* 0 <= corner[0] <= width and 0 <= corner[1] <= height
in_bounds(c, width, height) ==
    /\ ~RLess(c[1], RInt(0))
    /\ ~RLess(RInt(width), c[1])
    /\ ~RLess(c[2], RInt(0))
    /\ ~RLess(RInt(height), c[2])

\* A variant of too_few_lines that asks for three lines only.
too_few_lines_3(u) == Len(u) < 3

\* len(unique_lines) < 4
too_few_lines(u) == Len(u) < 4

\* best_pairs = find_most_parallel_pairs(unique_lines,
\* proximity_threshold): the arguments of the call.
pair_finder_args(u, t) == [lines |-> u, threshold |-> t]

\* What detect_corners has done when it returns: the returned value, the
\* stages run, and the values the stages have produced (None for a stage
\* that has not run).
detect_outcome(ret, st, t, u, lp, bp, cs) ==
    [ret |-> ret, stages |-> st, threshold |-> t, unique_lines |-> u,
     line_pairs |-> lp, best_pairs |-> bp, corners |-> cs,
     paired_on |-> IF \E i \in 1..Len(st) : st[i] = "find_most_parallel_pairs"
                   THEN pair_finder_args(u, t) ELSE Null]

upto_filter == <<"detect_lines", "filter_unique_lines">>

upto_pairs == Append(upto_filter, "find_most_parallel_pairs")

upto_corners == Append(upto_pairs, "find_best_corners")

\* The end of detect_corners: None for no corners or a corner out of the
\* image, the corners otherwise.
checked_corners(cs, width, height) ==
    IF cs = Null THEN Null
    ELSE IF \E i \in 1..Len(cs) : ~in_bounds(cs[i], width, height) THEN Null
    ELSE cs

\* detect_corners from `corners = find_best_corners(best_pairs, img)` on.
detect_from_corners(t, u, lp, bp, cs, width, height) ==
    detect_outcome(checked_corners(cs, width, height), upto_corners,
                   t, u, lp, bp, cs)

\* A variant of detect_from_best_pairs without the return on an empty
\* best_pairs.
detect_without_pairs_test(t, u, lp, bp, width, height) ==
    detect_from_corners(t, u, lp, bp, find_best_corners(bp), width, height)

\* detect_corners from `if not best_pairs: return None` on.
detect_from_best_pairs(t, u, lp, bp, width, height) ==
    IF bp = <<>> THEN detect_outcome(Null, upto_pairs, t, u, lp, bp, Null)
    ELSE detect_from_corners(t, u, lp, bp, find_best_corners(bp), width, height)

\* detect_corners inside find_most_parallel_pairs, from its line_pairs
\* on.
detect_from_line_pairs(t, u, lp, width, height, order) ==
    detect_from_best_pairs(t, u, lp, select_best_pairs(lp, order), width, height)

\* detect_corners from the call of find_most_parallel_pairs on, for the
\* arguments a of the call.
detect_from_pair_args(t, u, a, width, height, order) ==
    detect_from_line_pairs(t, u, all_line_pairs(a.lines, a.threshold),
                           width, height, order)

\* detect_corners from `if len(unique_lines) < 4: return None` on.
detect_from_unique_lines(t, u, width, height, order) ==
    IF too_few_lines(u) THEN detect_outcome(Null, upto_filter, t, u, Null, Null, Null)
    ELSE detect_from_pair_args(t, u, pair_finder_args(u, t), width, height, order)

\* detect_corners from `unique_lines = filter_unique_lines(lines,
\* proximity_threshold)` on.
detect_from_lines(detected, t, width, height, order) ==
    detect_from_unique_lines(t, filter_unique_lines(detected, t),
                             width, height, order)

\* detect_corners(img) for a mask of the given size in which detect_lines
\* finds `detected`, and an order that argsort can return.
detect_corners(detected, width, height, order) ==
    detect_from_lines(detected, proximity_threshold(width, height),
                      width, height, order)

\* The exception classes that `except RuntimeError` catches in
\* remove_background.
CaughtByRemoveBackground == {"RuntimeError"}

\* The exception classes that `except (ValueError, TypeError,
\* RuntimeError)` catches in crop_to_square.
CaughtByCropToSquare == {"ValueError", "TypeError", "RuntimeError"}

\* remove_background(img): the mask, None when remove raises an exception
\* that it catches, and the exception raised on when it does not.
remove_background(seg) ==
    IF seg = "mask" THEN [raised |-> "none", value |-> "mask"]
    ELSE IF seg \in CaughtByRemoveBackground THEN [raised |-> "none", value |-> "None"]
    ELSE [raised |-> seg, value |-> "None"]

\* 255 * np.uint8(r > 150) for what remove_background has done: the
\* exception raised, "none" when there is a mask.
threshold_mask(r) ==
    IF r.raised # "none" THEN r.raised
    ELSE IF r.value = "None" THEN "TypeError"
    ELSE "none"

\* bg_removed_img = 255 * np.uint8(remove_background(sharpened_img) > 150):
\* the exception raised before detect_corners is reached, "none" when
\* there is a mask.  None > 150 raises TypeError.
background_stage(seg) == threshold_mask(remove_background(seg))

\* perspective_transform(corners, img): the warped image, as the corners
\* and the pixels it was computed from.
perspective_transform(cs, pixels) ==
    IF Len(cs) # 4 THEN Null ELSE <<cs, pixels>>

\* The arrays of crop_to_square and of the functions it calls, each named
\* once: "original" is img_arr = np.array(image), "sharpened" the new
\* array that cv2.filter2D returns in sharpen_image, "mask" the
\* thresholded and dilated mask, "img_bgr" the copy of the mask that
\* detect_corners makes, and "line_img" the img.copy() of detect_lines.

\* A variant of warp_source that warps the sharpened image.
warp_source_sharpened == "sharpened"

\* warped_image = perspective_transform(reformatted_corners, img_arr):
\* the array that is warped.
warp_source == "original"

\* detect_lines draws every line it has found on line_img; it returns
\* before line_img is made when HoughLinesP finds none.
drawn_by_detect_lines(detected) ==
    IF detected = <<>> THEN {} ELSE {"line_img"}

\* find_corners_from_lines(line_pairs, img) draws the two lines and the
\* intersection on img for each corner it appends; find_best_corners
\* calls it for each combination it does not skip, on detect_corners'
\* img_bgr.
drawn_by_find_best_corners(pairs) ==
    IF \E i \in 1..Len(pairs) : \E j \in (i + 1)..Len(pairs) :
           /\ ~skip_combination(pairs[i], pairs[j])
           /\ corners_recorded(pairs[i], pairs[j]) # <<>>
    THEN {"img_bgr"}
    ELSE {}

\* The arrays drawn on by the stages of detect_corners that have run.
drawn_by_stages(st, detected, bp) ==
    (IF "detect_lines" \in {st[i] : i \in 1..Len(st)}
     THEN drawn_by_detect_lines(detected) ELSE {})
        \union (IF "find_best_corners" \in {st[i] : i \in 1..Len(st)}
                THEN drawn_by_find_best_corners(bp) ELSE {})

\* What crop_to_square has done when it is left: the returned value, the
\* exception that leaves it ("none" if none), the stages run,
\* crop_to_square's reformatted_corners, and detect_corners' record.
crop_outcome(ret, esc, st, ref, det) ==
    [ret |-> ret, escaped |-> esc, stages |-> st,
     reformatted_corners |-> ref, detect |-> det]

upto_mask == <<"sharpen_image", "remove_background">>

\* detect_corners' record when detect_corners has not run.
not_run ==
    [ret |-> Null, stages |-> <<>>, threshold |-> Null, unique_lines |-> Null,
     line_pairs |-> Null, best_pairs |-> Null, corners |-> Null, paired_on |-> Null]

\* crop_to_square from `return warped_image` on (None when
\* perspective_transform has returned None).
crop_from_warped(d, r, w) ==
    crop_outcome(w, "none",
                 upto_mask \o d.stages \o <<"reformat_corners", "perspective_transform">>,
                 r, d)

\* crop_to_square from `if reformatted_corners is None: return None` on.
crop_from_reformatted(d, r) ==
    IF r = Null
    THEN crop_outcome(Null, "none", upto_mask \o d.stages \o <<"reformat_corners">>,
                      Null, d)
    ELSE crop_from_warped(d, r, perspective_transform(r, warp_source))

\* crop_to_square from `if corners is None: return None` on.
crop_from_corners(d) ==
    IF d.ret = Null THEN crop_outcome(Null, "none", upto_mask \o d.stages, Null, d)
    ELSE crop_from_reformatted(d, reformat_corners(d.ret))

\* lines = cv2.HoughLinesP(edges_dilated, ...) in detect_lines: None when
\* no line is found in the mask, the lines found otherwise.
hough_lines(img) == IF img.lines = <<>> THEN "None" ELSE img.lines

\* A variant of detect_lines without `if lines is None: return []`:
\* `for line in lines` raises TypeError on None.
detect_lines_unguarded(hough) ==
    IF hough = "None" THEN [raised |-> "TypeError", ret |-> Null]
    ELSE [raised |-> "none", ret |-> hough]

\* detect_lines(img) from the Hough transform on: the empty list when it
\* has found nothing, the flattened lines otherwise; it raises nothing.
detect_lines(hough) ==
    IF hough = "None" THEN [raised |-> "none", ret |-> <<>>]
    ELSE [raised |-> "none", ret |-> hough]

\* crop_to_square from `lines = detect_lines(img)` in detect_corners on:
\* an exception of detect_lines passes through detect_corners to the
\* except clause of crop_to_square.
crop_from_detected(dl, img, order) ==
    IF dl.raised = "none"
    THEN crop_from_corners(detect_corners(dl.ret, img.width, img.height, order))
    ELSE crop_outcome(Null,
                      IF dl.raised \in CaughtByCropToSquare THEN "none" ELSE dl.raised,
                      Append(upto_mask, "detect_lines"), Null,
                      [not_run EXCEPT !.stages = <<"detect_lines">>])

\* crop_to_square from the thresholding of the mask on: an exception of
\* a class in the except clause gives None, any other leaves
\* crop_to_square.
crop_from_mask(raised, img, order) ==
    IF raised = "none"
    THEN crop_from_detected(detect_lines(hough_lines(img)), img, order)
    ELSE IF raised \in CaughtByCropToSquare
    THEN crop_outcome(Null, "none", upto_mask, Null, not_run)
    ELSE crop_outcome(Null, raised, upto_mask, Null, not_run)

\* crop_to_square(image), for an order that argsort can return.
crop_to_square(img, order) == crop_from_mask(background_stage(img.seg), img, order)

\* The bytes of the PNG that extract_album_cover saves the rectified image
\* to.
png_bytes(warped) == <<"png", warped>>

\* extract_album_cover from `if cropped_image is None: return None` on.
extract_from_cropped(c) ==
    IF c.escaped # "none" THEN [raised |-> c.escaped, ret |-> Null]
    ELSE IF c.ret = Null THEN [raised |-> "none", ret |-> Null]
    ELSE [raised |-> "none", ret |-> png_bytes(c.ret)]

\* extract_album_cover(image): the bytes returned, None, or the exception
\* that leaves it.  It has no handler of its own.
extract_album_cover(img, order) == extract_from_cropped(crop_to_square(img, order))

----------------------------------------------------------------------------
(* detect_corners of square.py.                                            *)

\* if intersection == (None, None): return None
sq_all_intersect(cs) == IF \E i \in 1..4 : cs[i] = NoPoint THEN Null ELSE cs

\* square.find_corners_from_lines(line_pairs): None at the first
\* combination found parallel; the corners are not truncated.
sq_find_corners_from_lines(pairs) ==
    sq_all_intersect(<<find_lines_intersection(pairs[1][1], pairs[2][1]),
                       find_lines_intersection(pairs[1][1], pairs[2][2]),
                       find_lines_intersection(pairs[1][2], pairs[2][1]),
                       find_lines_intersection(pairs[1][2], pairs[2][2])>>)

\* corners = reformat_corners(corners) in square.find_best_corners, and
\* what is appended to sets_of_corners.
sq_reformatted_set(cs) ==
    IF cs = Null THEN <<>> ELSE appended_set(sq_reformat_corners(cs))

\* What one combination appends to sets_of_corners in
\* square.find_best_corners.
sq_corner_set_of(first_pair, second_pair) ==
    IF skip_combination(first_pair, second_pair) THEN <<>>
    ELSE sq_reformatted_set(sq_find_corners_from_lines(<<first_pair, second_pair>>))

\* sets_of_corners after the double loop of square.find_best_corners,
\* which runs over every ordered combination, from (i, j) on.
RECURSIVE sq_sets_of_corners_from(_, _, _)
sq_sets_of_corners_from(pairs, i, j) ==
    IF i > Len(pairs) THEN <<>>
    ELSE IF j > Len(pairs) THEN sq_sets_of_corners_from(pairs, i + 1, 1)
    ELSE sq_corner_set_of(pairs[i], pairs[j]) \o sq_sets_of_corners_from(pairs, i, j + 1)

\* The values sets_of_corners[np.argsort(ratio_distances)[0]] can take:
\* argsort's default sort does not fix which of several smallest
\* distances comes first.
sq_best_of(sets) == {sets[i] : i \in smallest(ratio_distances(sets))}

\* if len(sets_of_corners) == 0: return None, and the sets at the front
\* of the argsort otherwise.
sq_best_from_sets(sets) ==
    IF sets = <<>> THEN [raised |-> "none", rets |-> {Null}]
    ELSE [raised |-> "none", rets |-> sq_best_of(sets)]

\* square.find_best_corners from its double loop over pairs on, for what
\* find_parallel_pairs has done.
sq_best_from_pairs(found_pairs_) ==
    IF found_pairs_.raised # "none" THEN [raised |-> found_pairs_.raised, rets |-> {}]
    ELSE IF \E i \in 1..Len(found_pairs_.line_pairs) : found_pairs_.line_pairs[i] = Null
    THEN [raised |-> "TypeError", rets |-> {}]
    ELSE sq_best_from_sets(sq_sets_of_corners_from(found_pairs_.line_pairs, 1, 1))

\* square.find_best_corners(lines, threshold, img): the exception it
\* raises ("none" if none) and the values it can return.  Indexing a None
\* entry of pairs raises TypeError.
sq_find_best_corners(ls, t) == sq_best_from_pairs(sq_find_parallel_pairs(ls, t))

\* proximity_threshold = height * 0.3 if height < width else width * 0.3
sq_proximity_threshold(width, height) == Rat(3 * Min(height, width), 10)

\* What square.detect_corners has done once find_best_corners is left.
sq_detect_from_best(b, u, a) ==
    [raised |-> b.raised, called |-> TRUE, rets |-> b.rets,
     deduped |-> u, paired_on |-> a]

\* corners = find_best_corners(lines, proximity_threshold, img), whose
\* first statement is pairs = find_parallel_pairs(lines, threshold): the
\* arguments that reach the pair finder, for the detected lines and the
\* unique lines of detect_corners.
sq_pair_finder_args(detected, u, t) == [lines |-> detected, threshold |-> t]

\* square.detect_corners from the call of find_best_corners on, for the
\* arguments a that reach the pair finder.
sq_detect_from_args(u, a) ==
    sq_detect_from_best(sq_find_best_corners(a.lines, a.threshold), u, a)

\* square.detect_corners from `if len(unique_lines) < 4` on, for
\* u = unique_lines and the threshold they were made with.
sq_detect_from_unique(detected, u) ==
    IF Len(u.lines) < 4
    THEN [raised |-> "none", called |-> FALSE, rets |-> {Null},
          deduped |-> u, paired_on |-> Null]
    ELSE sq_detect_from_args(u, sq_pair_finder_args(detected, u.lines, u.threshold))

\* square.detect_corners from `unique_lines = filter_unique_lines(lines,
\* proximity_threshold)` on.
sq_detect_from_lines(detected, t) ==
    sq_detect_from_unique(detected,
                          [lines |-> filter_unique_lines(detected, t), threshold |-> t])

\* square.detect_corners(img) up to its call of find_best_corners, which
\* is given `lines`, not unique_lines: the exception raised ("none" if
\* none), whether find_best_corners was called, and the values `corners`
\* can take.  detect_lines iterates over the None that HoughLinesP
\* returns for a mask without lines, which raises TypeError.
sq_detect_corners(detected, width, height) ==
    IF detected = <<>>
    THEN [raised |-> "TypeError", called |-> FALSE, rets |-> {},
          deduped |-> Null, paired_on |-> Null]
    ELSE sq_detect_from_lines(detected, sq_proximity_threshold(width, height))

\* The end of square.detect_corners, the same as in cover_extractor.py.
sq_checked_corners(cs, width, height) == checked_corners(cs, width, height)

----------------------------------------------------------------------------
(* Inputs.                                                                 *)

\* Line endpoints given to filter_unique_lines lie on the grid XS x YS.
XS == 0..2

YS == 0..1

\* (x1, y1) <= (x2, y2) in the lexicographic order.
LexLeq(x1, y1, x2, y2) == x1 < x2 \/ (x1 = x2 /\ y1 <= y2)

\* The segments of the grid, each in one orientation, the zero-length
\* ones among them.
GridLines ==
    {l \in {<<x1, y1, x2, y2>> : x1 \in XS, y1 \in YS, x2 \in XS, y2 \in YS} :
        LexLeq(l[1], l[2], l[3], l[4])}

\* The lists of at most n elements of S.
RECURSIVE SeqsUpTo(_, _)
SeqsUpTo(S, n) ==
    IF n = 0 THEN {<<>>}
    ELSE LET shorter == SeqsUpTo(S, n - 1)
         IN  shorter \cup {Append(s, e) : s \in {q \in shorter : Len(q) = n - 1}, e \in S}

\* Proximity thresholds given to filter_unique_lines: 1 and 1.5.
Thresholds == {<<1, 1>>, <<3, 2>>}

----------------------------------------------------------------------------
(* A specification leaves the variables of the functions it does not      *)
(* call at None.                                                           *)

IdleDedup ==
    /\ lines = Null
    /\ threshold = Null
    /\ unique_lines = Null
    /\ refiltered = Null

IdleIntersect ==
    /\ line_1 = Null
    /\ line_2 = Null
    /\ intersection = Null
    /\ pair_1 = Null
    /\ pair_2 = Null
    /\ recorded = Null
    /\ found = Null

IdleReformat ==
    /\ corners = Null
    /\ reformatted = Null
    /\ sq_reformatted = Null

IdlePairs ==
    /\ found_pairs = Null
    /\ parallel_pairs = Null
    /\ sq_pairs = Null
    /\ sq_raised = "none"

IdleCrop ==
    /\ image = Null
    /\ stages = <<>>
    /\ chosen = Null
    /\ result = Null
    /\ escaped = "none"
    /\ drawn_on = {}
    /\ paired_on = Null
    /\ sq_deduped = Null
    /\ sq_paired_on = Null
    /\ sq_corners = Null
    /\ sq_chosen = Null
    /\ sq_escaped = "none"

IdleUpload ==
    /\ upload = Null
    /\ extracted = Null
    /\ vectorized = Null
    /\ response = "pending"

IdleBest ==
    /\ given_pairs = Null
    /\ sets_of_corners = Null
    /\ best_corners = Null
    /\ sq_given_pairs = Null
    /\ sq_sets = Null
    /\ sq_best = Null
    /\ sq_best_raised = "none"

IdleService ==
    /\ calls = Null
    /\ scratch = Null
    /\ albums = Null
    /\ artists = Null
    /\ requests = Null
    /\ tmp_files = Null
    /\ csv_upload = Null

----------------------------------------------------------------------------
(* SpecDedup: filter_unique_lines on every bounded line list.              *)

InitDedup ==
    /\ pc = "input"
    /\ lines \in SeqsUpTo(GridLines, MaxLines)
    /\ threshold \in Thresholds
    /\ unique_lines = <<>>
    /\ refiltered = <<>>
    /\ IdleIntersect
    /\ IdleReformat
    /\ IdlePairs
    /\ IdleCrop
    /\ IdleUpload
    /\ IdleBest
    /\ IdleService

\* unique_lines = filter_unique_lines(lines, proximity_threshold)
Filter ==
    /\ pc = "input"
    /\ pc' = "filtered"
    /\ unique_lines' = filter_unique_lines(lines, threshold)
    /\ UNCHANGED <<lines, threshold, refiltered>>
    /\ UNCHANGED <<intersectVars, reformatVars, pairVars, cropVars, uploadVars>>
    /\ UNCHANGED bestVars
    /\ UNCHANGED serviceVars

\* The deduplicator run on its own output.
FilterAgain ==
    /\ pc = "filtered"
    /\ pc' = "refiltered"
    /\ refiltered' = filter_unique_lines(unique_lines, threshold)
    /\ UNCHANGED <<lines, threshold, unique_lines>>
    /\ UNCHANGED <<intersectVars, reformatVars, pairVars, cropVars, uploadVars>>
    /\ UNCHANGED bestVars
    /\ UNCHANGED serviceVars

NextDedup == Filter \/ FilterAgain

SpecDedup == InitDedup /\ [][NextDedup]_vars

\* The elements of a list.
Range(s) == {s[i] : i \in 1..Len(s)}

\* Two lines are close and nearly parallel: some endpoint of one is nearer
\* than the threshold to some endpoint of the other, and the absolute dot
\* product of their unit direction vectors is > 0.92.
CloseAndParallel(a, b, t) ==
    /\ \E i \in {1, 3} : \E j \in {1, 3} :
           DistLess(DistSq(a[i], a[i + 1], b[j], b[j + 1]), t)
    /\ LET dot == (a[3] - a[1]) * (b[3] - b[1]) + (a[4] - a[2]) * (b[4] - b[2])
       IN  /\ line_length_sq(a) > 0
           /\ line_length_sq(b) > 0
           /\ dot * dot * 10000 > 8464 * line_length_sq(a) * line_length_sq(b)

\* C1: the list returned by filter_unique_lines holds no two entries that
\* are both close and nearly parallel.
C1_NoCloseParallelPair ==
    pc = "filtered" =>
        \A i, j \in 1..Len(unique_lines) :
            i # j => ~CloseAndParallel(unique_lines[i], unique_lines[j], threshold)

\* C2: deduplication is idempotent: filter_unique_lines applied to its own
\* output, with the same threshold, returns the same set of lines.
C2_DedupIdempotent ==
    pc = "refiltered" => Range(refiltered) = Range(unique_lines)

----------------------------------------------------------------------------
(* SpecIntersect: find_lines_intersection on every two lines of the grid,  *)
(* and find_corners_from_lines on pairs that hold them.                    *)

CoordLines ==
    {<<x1, y1, x2, y2>> :
        x1 \in 0..MaxCoord, y1 \in 0..MaxCoord,
        x2 \in 0..MaxCoord, y2 \in 0..MaxCoord}

\* The second line of pair_1: its first line again, or a horizontal line.
FirstPartners(l) == {l, <<0, 1, 2, 1>>}

\* The second line of pair_2: its first line again, or a vertical line.
SecondPartners(l) == {l, <<1, 0, 1, 2>>}

InitIntersect ==
    /\ pc = "input"
    /\ line_1 \in CoordLines
    /\ line_2 \in CoordLines
    /\ intersection = Null
    /\ pair_1 = Null
    /\ pair_2 = Null
    /\ recorded = Null
    /\ found = Null
    /\ IdleDedup
    /\ IdleReformat
    /\ IdlePairs
    /\ IdleCrop
    /\ IdleUpload
    /\ IdleBest
    /\ IdleService

\* intersection = find_lines_intersection(line_1, line_2)
Intersect ==
    /\ pc = "input"
    /\ pc' = "intersected"
    /\ intersection' = find_lines_intersection(line_1, line_2)
    /\ UNCHANGED <<line_1, line_2, pair_1, pair_2, recorded, found>>
    /\ UNCHANGED <<dedupVars, reformatVars, pairVars, cropVars, uploadVars>>
    /\ UNCHANGED bestVars
    /\ UNCHANGED serviceVars

\* corners = find_corners_from_lines([pair_1, pair_2], img), for a pair_1
\* that holds line_1 and a pair_2 that holds line_2.
FindCorners ==
    /\ pc = "intersected"
    /\ pc' = "corners"
    /\ \E a \in FirstPartners(line_1), b \in SecondPartners(line_2) :
          /\ pair_1' = <<line_1, a>>
          /\ pair_2' = <<line_2, b>>
          /\ recorded' = corners_recorded(<<line_1, a>>, <<line_2, b>>)
          /\ found' = find_corners_from_lines(<< <<line_1, a>>, <<line_2, b>> >>)
    /\ UNCHANGED <<line_1, line_2, intersection>>
    /\ UNCHANGED <<dedupVars, reformatVars, pairVars, cropVars, uploadVars>>
    /\ UNCHANGED bestVars
    /\ UNCHANGED serviceVars

NextIntersect == Intersect \/ FindCorners

SpecIntersect == InitIntersect /\ [][NextIntersect]_vars

\* Both lines are vertical (x1 = x2, as the code tests it), or neither is
\* and their slopes are equal.
Parallel(a, b) ==
    \/ a[1] = a[3] /\ b[1] = b[3]
    \/ /\ a[1] # a[3]
       /\ b[1] # b[3]
       /\ (a[4] - a[2]) * (b[3] - b[1]) = (b[4] - b[2]) * (a[3] - a[1])

\* The point p = <<x, y>> (two rationals) lies on the infinite line
\* through the two endpoints of l:
\* (x - x1) * (y2 - y1) = (y - y1) * (x2 - x1).
OnLine(p, l) ==
    (p[1][1] - l[1] * p[1][2]) * (l[4] - l[2]) * p[2][2]
        = (p[2][1] - l[2] * p[2][2]) * (l[3] - l[1]) * p[1][2]

IsPoint(p) == Len(p) = 2 /\ Len(p[1]) = 2 /\ Len(p[2]) = 2

\* C5: for two parallel lines find_lines_intersection returns the failure
\* indicator (None, None), never a point, and find_corners_from_lines
\* records no corner for a combination of parallel lines: the corners it
\* has recorded are as many as the combinations that are not parallel.
C5_ParallelGivesNoPoint ==
    /\ (pc \in {"intersected", "corners"} /\ Parallel(line_1, line_2))
          => intersection = NoPoint
    /\ pc = "corners" =>
          /\ Len(recorded)
                = Cardinality({ij \in {1, 2} \X {1, 2} :
                                  ~Parallel(pair_1[ij[1]], pair_2[ij[2]])})
          /\ (Parallel(line_1, line_2) => found = Null)

\* C5's case: two parallel lines were intersected and then given to
\* find_corners_from_lines, which recorded fewer than four corners.
C5_Witness ==
    /\ pc = "corners"
    /\ Parallel(line_1, line_2)
    /\ line_length_sq(line_1) > 0
    /\ line_1[1] # line_1[3]
    /\ Len(recorded) = 2

\* C6: for two lines with distinct endpoints that are not parallel,
\* one of them possibly vertical, find_lines_intersection returns the
\* point that lies on both infinite lines; (0,0)-(100,100) and
\* (0,100)-(100,0) give (50,50).
C6_IntersectionOnBothLines ==
    /\ ( /\ pc \in {"intersected", "corners"}
         /\ line_length_sq(line_1) > 0
         /\ line_length_sq(line_2) > 0
         /\ ~Parallel(line_1, line_2) )
          => /\ IsPoint(intersection)
             /\ OnLine(intersection, line_1)
             /\ OnLine(intersection, line_2)
    /\ find_lines_intersection(<<0, 0, 100, 100>>, <<0, 100, 100, 0>>)
          = <<RInt(50), RInt(50)>>

\* C6's case: a vertical line and a slanted line were intersected at a
\* point whose y coordinate is not an integer.
C6_Witness ==
    /\ pc = "intersected"
    /\ line_1[1] = line_1[3]
    /\ line_length_sq(line_1) > 0
    /\ line_2[1] # line_2[3]
    /\ line_2[2] # line_2[4]
    /\ IsPoint(intersection)
    /\ intersection[2][2] # 1

----------------------------------------------------------------------------
(* SpecReformat: both reformat_corners on every list of four corners of    *)
(* the grid of the multiples of 50.                                        *)

CornerPoints ==
    {<<RInt(50 * i), RInt(50 * j)>> : i \in 0..MaxCorner, j \in 0..MaxCorner}

InitReformat ==
    /\ pc = "input"
    /\ corners \in [1..4 -> CornerPoints]
    /\ reformatted = Null
    /\ sq_reformatted = Null
    /\ IdleDedup
    /\ IdleIntersect
    /\ IdlePairs
    /\ IdleCrop
    /\ IdleUpload
    /\ IdleBest
    /\ IdleService

\* reformatted_corners = reformat_corners(corners), cover_extractor.py.
Reformat ==
    /\ pc \in {"input", "sq_reformatted"}
    /\ pc' = IF pc = "input" THEN "reformatted" ELSE "both"
    /\ reformatted' = reformat_corners(corners)
    /\ UNCHANGED <<corners, sq_reformatted>>
    /\ UNCHANGED <<dedupVars, intersectVars, pairVars, cropVars, uploadVars>>
    /\ UNCHANGED bestVars
    /\ UNCHANGED serviceVars

\* input_coords = reformat_corners(corners), square.py.
SqReformat ==
    /\ pc \in {"input", "reformatted"}
    /\ pc' = IF pc = "input" THEN "sq_reformatted" ELSE "both"
    /\ sq_reformatted' = sq_reformat_corners(corners)
    /\ UNCHANGED <<corners, reformatted>>
    /\ UNCHANGED <<dedupVars, intersectVars, pairVars, cropVars, uploadVars>>
    /\ UNCHANGED bestVars
    /\ UNCHANGED serviceVars

NextReformat == Reformat \/ SqReformat

SpecReformat == InitReformat /\ [][NextReformat]_vars

\* The integer coordinates of the i-th corner given to reformat_corners.
CX(i) == corners[i][1][1]

CY(i) == corners[i][2][1]

\* Four times the centroid of the four corners.
SumX == CX(1) + CX(2) + CX(3) + CX(4)

SumY == CY(1) + CY(2) + CY(3) + CY(4)

\* The corners in each open quadrant around the centroid.
QuadTL == {i \in 1..4 : 4 * CX(i) < SumX /\ 4 * CY(i) < SumY}

QuadTR == {i \in 1..4 : 4 * CX(i) > SumX /\ 4 * CY(i) < SumY}

QuadBR == {i \in 1..4 : 4 * CX(i) > SumX /\ 4 * CY(i) > SumY}

QuadBL == {i \in 1..4 : 4 * CX(i) < SumX /\ 4 * CY(i) > SumY}

\* The quadrants as square.py draws them: a corner on the vertical axis
\* through the centroid counts as left, one on the horizontal axis as
\* bottom.
SqQuadTL == {i \in 1..4 : 4 * CX(i) <= SumX /\ 4 * CY(i) < SumY}

SqQuadTR == {i \in 1..4 : 4 * CX(i) > SumX /\ 4 * CY(i) < SumY}

SqQuadBR == {i \in 1..4 : 4 * CX(i) > SumX /\ 4 * CY(i) >= SumY}

SqQuadBL == {i \in 1..4 : 4 * CX(i) <= SumX /\ 4 * CY(i) >= SumY}

One(S) == Cardinality(S) = 1

The(S) == corners[CHOOSE i \in S : TRUE]

UnitSquare ==
    <<<<RInt(0), RInt(0)>>, <<RInt(100), RInt(0)>>,
      <<RInt(100), RInt(100)>>, <<RInt(0), RInt(100)>>>>

\* C3: reformat_corners returns None exactly when some quadrant around the
\* centroid holds no corner or more than one, and otherwise returns the
\* corners of the quadrants in the order top-left, top-right,
\* bottom-right, bottom-left; the square (0,0),(100,0),(100,100),(0,100)
\* in any order gives [(0,0),(100,0),(100,100),(0,100)].  It holds of
\* cover_extractor.reformat_corners and, with the quadrants closed as
\* square.py closes them, of square.reformat_corners.
C3_ReformatOrder ==
    /\ pc \in {"reformatted", "both"} =>
          /\ reformatted = Null
                <=> ~(One(QuadTL) /\ One(QuadTR) /\ One(QuadBR) /\ One(QuadBL))
          /\ reformatted # Null =>
                reformatted = <<The(QuadTL), The(QuadTR), The(QuadBR), The(QuadBL)>>
          /\ Range(corners) = Range(UnitSquare) => reformatted = UnitSquare
    /\ pc \in {"sq_reformatted", "both"} =>
          /\ sq_reformatted = Null
                <=> ~(One(SqQuadTL) /\ One(SqQuadTR) /\ One(SqQuadBR) /\ One(SqQuadBL))
          /\ sq_reformatted # Null =>
                sq_reformatted
                    = <<The(SqQuadTL), The(SqQuadTR), The(SqQuadBR), The(SqQuadBL)>>
          /\ Range(corners) = Range(UnitSquare) => sq_reformatted = UnitSquare

\* C3's case: the square was given with its corners out of order and both
\* functions have returned it in the canonical order.
C3_Witness ==
    /\ pc = "both"
    /\ corners = <<UnitSquare[3], UnitSquare[1], UnitSquare[4], UnitSquare[2]>>
    /\ reformatted = UnitSquare
    /\ sq_reformatted = UnitSquare

----------------------------------------------------------------------------
(* SpecPairs: find_most_parallel_pairs and square.find_parallel_pairs on   *)
(* every bounded line list.                                                *)

\* The lines given to the pair finders: the segments of the grid, and one
\* zero-length line.
PairLines == {l \in GridLines : line_length_sq(l) > 0 \/ l = <<0, 0, 0, 0>>}

InitPairs ==
    /\ pc = "input"
    /\ lines \in SeqsUpTo(PairLines, MaxLines)
    /\ threshold \in Thresholds
    /\ unique_lines = Null
    /\ refiltered = Null
    /\ IdleIntersect
    /\ IdleReformat
    /\ IdlePairs
    /\ IdleCrop
    /\ IdleUpload
    /\ IdleBest
    /\ IdleService

\* parallel_pairs = find_most_parallel_pairs(lines, proximity_threshold)
FindPairs ==
    /\ pc = "input"
    /\ pc' = "paired"
    /\ \E candidates \in {all_line_pairs(lines, threshold)} :
           /\ found_pairs' = candidates
           /\ \E order \in argsort_orders(candidates) :
                  parallel_pairs' = find_most_parallel_pairs(lines, threshold, order)
    /\ UNCHANGED <<sq_pairs, sq_raised>>
    /\ UNCHANGED <<dedupVars, intersectVars, reformatVars, cropVars, uploadVars>>
    /\ UNCHANGED bestVars
    /\ UNCHANGED serviceVars

\* pairs = find_parallel_pairs(lines, threshold) of square.py, on the same
\* list, after find_most_parallel_pairs has returned.
SqFindPairs ==
    /\ pc = "paired"
    /\ pc' = "sq_paired"
    /\ \E r \in {sq_find_parallel_pairs(lines, threshold)} :
           /\ sq_pairs' = r.line_pairs
           /\ sq_raised' = r.raised
    /\ UNCHANGED <<found_pairs, parallel_pairs>>
    /\ UNCHANGED <<dedupVars, intersectVars, reformatVars, cropVars, uploadVars>>
    /\ UNCHANGED bestVars
    /\ UNCHANGED serviceVars

NextPairs == FindPairs \/ SqFindPairs

SpecPairs == InitPairs /\ [][NextPairs]_vars

\* Some endpoint of a is nearer than the threshold t to some endpoint of
\* b.
Close(a, b, t) ==
    \E i \in {1, 3} : \E j \in {1, 3} :
        DistLess(DistSq(a[i], a[i + 1], b[j], b[j + 1]), t)

\* A line pair of two different lines that are not close.
DifferentAndApart(pair, t) ==
    /\ Len(pair) = 2
    /\ pair[1] # pair[2]
    /\ ~Close(pair[1], pair[2], t)

\* C10: every line pair produced by the pair finder (the candidate pairs
\* and the pairs returned by find_most_parallel_pairs, and every pair in
\* the list square.find_parallel_pairs returns) consists of two different
\* lines that are not close under the proximity threshold.
C10_PairsDifferentAndApart ==
    /\ pc \in {"paired", "sq_paired"} =>
           /\ \A i \in 1..Len(found_pairs) : DifferentAndApart(found_pairs[i], threshold)
           /\ \A i \in 1..Len(parallel_pairs) :
                  DifferentAndApart(parallel_pairs[i], threshold)
    /\ (pc = "sq_paired" /\ sq_raised = "none") =>
           \A i \in 1..Len(sq_pairs) :
               sq_pairs[i] # Null => DifferentAndApart(sq_pairs[i], threshold)

\* C10 witness: both pair finders have returned pairs for a list that
\* holds two different lines close to each other and not perpendicular.
C10_Witness ==
    /\ pc = "sq_paired"
    /\ Len(parallel_pairs) = 2
    /\ sq_raised = "none"
    /\ Len(sq_pairs) = 2
    /\ \E i, j \in 1..Len(lines) :
           /\ lines[i] # lines[j]
           /\ Close(lines[i], lines[j], threshold)
           /\ SimGT(calculate_parallel_similarity(lines[i], lines[j]), <<0, 1>>)

\* The primary lines (the first lines) of the pairs p and q are
\* near-parallel: their similarity is not < 0.9.
SameAxis(p, q) == ~SimLess(calculate_parallel_similarity(p[1], q[1]), 9, 10)

\* No candidate pair scores higher than the pair p.
TopScoring(p) ==
    \A i \in 1..Len(found_pairs) :
        ~SimGT(pair_similarity(found_pairs[i]), pair_similarity(p))

\* C11: whenever find_most_parallel_pairs returns two pairs, the first
\* is the top-scoring pair, the second is the highest-ranked remaining
\* pair whose primary line has similarity < 0.9 with the primary line of
\* the first, and so the two pairs are never on the same axis.
C11_TwoPairsTwoAxes ==
    (pc \in {"paired", "sq_paired"} /\ Len(parallel_pairs) = 2) =>
        /\ TopScoring(parallel_pairs[1])
        /\ ~SameAxis(parallel_pairs[1], parallel_pairs[2])
        /\ \A i \in 1..Len(found_pairs) :
               (/\ found_pairs[i] # parallel_pairs[1]
                /\ ~SameAxis(parallel_pairs[1], found_pairs[i]))
                   => ~SimGT(pair_similarity(found_pairs[i]),
                             pair_similarity(parallel_pairs[2]))

----------------------------------------------------------------------------
(* SpecCrop: crop_to_square on every bounded image, and the detect_corners *)
(* of square.py on its mask.                                               *)

\* The longest list of lines detect_lines finds in a mask.
MaxDetected == 5

\* <<width, height>> of the images.
Dims == {<<5, 5>>, <<6, 5>>}

\* The lines detect_lines can find: the four sides of a square, a shorter
\* top side, a diagonal, and a slanted left side that meets the bottom
\* side left of the image.
DetectableLines ==
    {<<0, 0, 4, 0>>, <<0, 4, 4, 4>>, <<0, 0, 0, 4>>, <<4, 0, 4, 4>>,
     <<0, 0, 3, 0>>, <<0, 0, 4, 4>>, <<0, 2, 1, 0>>}

\* The lists of at most n different elements of S.
RECURSIVE InjSeqsUpTo(_, _)
InjSeqsUpTo(S, n) ==
    IF n = 0 THEN {<<>>}
    ELSE LET shorter == InjSeqsUpTo(S, n - 1)
         IN  shorter \cup
                 UNION {{Append(q, e) : e \in S \ Range(q)} :
                           q \in {r \in shorter : Len(r) = n - 1}}

\* The exception classes rembg's remove is modelled to raise.
SegFailures == {"RuntimeError", "ValueError", "TypeError", "OSError"}

Images ==
    {[width |-> d[1], height |-> d[2], seg |-> "mask", lines |-> ls] :
        d \in Dims, ls \in InjSeqsUpTo(DetectableLines, MaxDetected)}
    \cup {[width |-> d[1], height |-> d[2], seg |-> f, lines |-> <<>>] :
             d \in Dims, f \in SegFailures}

InitCrop ==
    /\ pc = "input"
    /\ image \in Images
    /\ stages = <<>>
    /\ chosen = Null
    /\ result = Null
    /\ escaped = "none"
    /\ drawn_on = {}
    /\ paired_on = Null
    /\ sq_deduped = Null
    /\ sq_paired_on = Null
    /\ sq_corners = Null
    /\ sq_chosen = Null
    /\ sq_escaped = "none"
    /\ IdleDedup
    /\ IdleIntersect
    /\ IdleReformat
    /\ IdlePairs
    /\ IdleUpload
    /\ IdleBest
    /\ IdleService

\* The orders argsort can return inside detect_corners(img).
crop_orders(img) ==
    LET t == proximity_threshold(img.width, img.height)
    IN  argsort_orders(all_line_pairs(filter_unique_lines(img.lines, t), t))

\* cropped_image = crop_to_square(image)
CropToSquare ==
    /\ pc = "input"
    /\ pc' = "cropped"
    /\ \E order \in crop_orders(image) :
           \E c \in {crop_to_square(image, order)} :
               /\ result' = c.ret
               /\ escaped' = c.escaped
               /\ stages' = c.stages
               /\ chosen' = c.detect.ret
               /\ lines' = IF c.detect.stages = <<>> THEN Null
                           ELSE detect_lines(hough_lines(image)).ret
               /\ threshold' = c.detect.threshold
               /\ unique_lines' = c.detect.unique_lines
               /\ found_pairs' = c.detect.line_pairs
               /\ parallel_pairs' = c.detect.best_pairs
               /\ corners' = c.detect.corners
               /\ reformatted' = c.reformatted_corners
               /\ drawn_on' = drawn_by_stages(c.detect.stages, image.lines,
                                               c.detect.best_pairs)
               /\ paired_on' = c.detect.paired_on
    /\ UNCHANGED <<image, sq_corners, sq_chosen, sq_escaped, sq_deduped, sq_paired_on>>
    /\ UNCHANGED <<refiltered, sq_reformatted, sq_pairs, sq_raised>>
    /\ UNCHANGED <<intersectVars, uploadVars>>
    /\ UNCHANGED bestVars
    /\ UNCHANGED serviceVars

\* corners = detect_corners(bg_removed_img) of square.py, on the mask of
\* an image whose segmentation succeeds, after crop_to_square has
\* returned.
SqDetectCorners ==
    /\ pc = "cropped"
    /\ image.seg = "mask"
    /\ pc' = "sq_detected"
    /\ \E d \in {sq_detect_corners(image.lines, image.width, image.height)} :
           IF d.raised # "none"
           THEN /\ sq_escaped' = d.raised
                /\ sq_corners' = Null
                /\ sq_chosen' = Null
                /\ sq_deduped' = d.deduped
                /\ sq_paired_on' = d.paired_on
           ELSE /\ sq_escaped' = "none"
                /\ sq_deduped' = d.deduped
                /\ sq_paired_on' = d.paired_on
                /\ \E cs \in d.rets :
                       /\ sq_corners' = cs
                       /\ sq_chosen' = sq_checked_corners(cs, image.width, image.height)
    /\ UNCHANGED <<image, stages, chosen, result, escaped, drawn_on, paired_on>>
    /\ UNCHANGED <<dedupVars, intersectVars, reformatVars, pairVars, uploadVars>>
    /\ UNCHANGED bestVars
    /\ UNCHANGED serviceVars

NextCrop == CropToSquare \/ SqDetectCorners

SpecCrop == InitCrop /\ [][NextCrop]_vars

\* The corner c = <<x, y>> of two rationals has x outside [0, width] or y
\* outside [0, height].
OutOfImage(c) ==
    \/ c[1][1] < 0
    \/ c[1][1] > image.width * c[1][2]
    \/ c[2][1] < 0
    \/ c[2][1] > image.height * c[2][2]

\* C4: detect_corners returns None whenever one of the four corners
\* selected by find_best_corners has x outside [0, width] or y outside
\* [0, height], and every result that is not None has its four corners
\* inside those inclusive bounds; in cover_extractor.py and in square.py.
C4_OutOfBoundsGivesNull ==
    /\ pc \in {"cropped", "sq_detected"} =>
           /\ (corners # Null /\ \E i \in 1..Len(corners) : OutOfImage(corners[i]))
                  => chosen = Null
           /\ chosen # Null =>
                  (Len(chosen) = 4 /\ \A i \in 1..4 : ~OutOfImage(chosen[i]))
    /\ (pc = "sq_detected" /\ sq_escaped = "none") =>
           /\ (sq_corners # Null /\ \E i \in 1..Len(sq_corners) : OutOfImage(sq_corners[i]))
                  => sq_chosen = Null
           /\ sq_chosen # Null =>
                  (Len(sq_chosen) = 4 /\ \A i \in 1..4 : ~OutOfImage(sq_chosen[i]))

\* C4 witness: find_best_corners has selected four corners, one of them
\* left of the image, and detect_corners has returned None.
C4_Witness ==
    /\ pc \in {"cropped", "sq_detected"}
    /\ corners # Null
    /\ Len(corners) = 4
    /\ \E i \in 1..4 : corners[i][1][1] < 0
    /\ chosen = Null
    /\ result = Null

\* C7: detect_corners returns None, and neither find_most_parallel_pairs
\* nor find_best_corners runs, whenever fewer than 4 lines remain after
\* filter_unique_lines.
C7_FewLinesGivesNull ==
    (/\ pc \in {"cropped", "sq_detected"}
     /\ "filter_unique_lines" \in Range(stages)
     /\ Len(unique_lines) < 4) =>
        /\ chosen = Null
        /\ "find_most_parallel_pairs" \notin Range(stages)
        /\ "find_best_corners" \notin Range(stages)
        /\ found_pairs = Null
        /\ parallel_pairs = Null
        /\ corners = Null

\* C7 witness: detect_lines has found at least 4 lines, 3 of them remain
\* after filter_unique_lines, and detect_corners has returned None after
\* that stage.
C7_Witness ==
    /\ pc \in {"cropped", "sq_detected"}
    /\ Len(lines) >= 4
    /\ "filter_unique_lines" \in Range(stages)
    /\ Len(unique_lines) = 3
    /\ chosen = Null
    /\ stages[Len(stages)] = "filter_unique_lines"

\* C8: if the background segmentation fails inside remove_background,
\* crop_to_square returns None without running detect_lines or any later
\* stage, and no exception escapes crop_to_square.
C8_SegmentationFailureGivesNull ==
    (pc \in {"cropped", "sq_detected"} /\ image.seg # "mask") =>
        /\ result = Null
        /\ stages = <<"sharpen_image", "remove_background">>
        /\ escaped = "none"

----------------------------------------------------------------------------
(* SpecUpload: upload_image (main.py) on every bounded request.            *)

\* The images of the requests: one that is rectified, one with too few
\* lines, one with a corner out of the image, one without lines, and one
\* for each failure of the segmentation.
UploadImages ==
    {[width |-> 5, height |-> 5, seg |-> "mask", lines |-> ls] :
        ls \in {<< <<0, 0, 4, 0>>, <<0, 4, 4, 4>>, <<0, 0, 0, 4>>, <<4, 0, 4, 4>> >>,
                << <<0, 0, 4, 0>>, <<0, 4, 4, 4>> >>,
                << <<0, 0, 4, 0>>, <<0, 4, 4, 4>>, <<4, 0, 4, 4>>, <<0, 2, 1, 0>> >>,
                <<>>}}
    \cup {[width |-> 5, height |-> 5, seg |-> f, lines |-> <<>>] : f \in SegFailures}

\* A request: whether validate_image accepts the file name, whether
\* Image.open identifies the file, the image it holds, whether verify()
\* accepts the raw bytes, what vectorize_image does ("ok": a vector of
\* EMBEDDING_SIZE floats, "bad": any other list, "raise": an exception),
\* and what match_vector does.
Uploads ==
    [filename_ok : BOOLEAN, opens : BOOLEAN, image : UploadImages,
     verifies : BOOLEAN, vector : {"ok", "bad", "raise"},
     db : {"match", "empty", "raise"}]

InitUpload ==
    /\ pc = "input"
    /\ upload \in Uploads
    /\ extracted = Null
    /\ vectorized = Null
    /\ response = "pending"
    /\ IdleDedup
    /\ IdleIntersect
    /\ IdleReformat
    /\ IdlePairs
    /\ IdleCrop
    /\ IdleBest
    /\ IdleService

\* image.file.read() after image.file.seek(0): the bytes of the file that
\* holds the image.
raw_bytes(img) == <<"raw", <<img.width, img.height, img.seg, img.lines>> >>

\* What upload_image has done when it answers: the response, what
\* extract_album_cover returned, the exception that left it, and the
\* bytes given to vectorize_image (None when it is not called).
upload_outcome(resp, ext, esc, vec) ==
    [response |-> resp, extracted |-> ext, escaped |-> esc, vectorized |-> vec]

\* upload_image from `vector = vectorize_image(album_cover_bytes)` on.
upload_from_bytes(up, ext, album_cover_bytes) ==
    IF up.vector # "ok" THEN upload_outcome("500", ext, "none", album_cover_bytes)
    ELSE IF up.db = "raise" THEN upload_outcome("500", ext, "none", album_cover_bytes)
    ELSE IF up.db = "empty"
    THEN upload_outcome("No matches found.", ext, "none", album_cover_bytes)
    ELSE upload_outcome("matched record", ext, "none", album_cover_bytes)

\* upload_image from `if not album_cover_bytes:` on, for what
\* extract_album_cover has done.
upload_from_extracted(up, e) ==
    IF e.raised # "none" THEN upload_outcome("500", Null, e.raised, Null)
    ELSE IF e.ret # Null THEN upload_from_bytes(up, e.ret, e.ret)
    ELSE IF ~up.verifies THEN upload_outcome("500", Null, "none", Null)
    ELSE upload_from_bytes(up, Null, raw_bytes(up.image))

\* upload_image(image), for an order that argsort can return.  Every
\* exception raised inside the try block, HTTPException included, is
\* answered with status 500.
upload_image(up, order) ==
    IF ~up.filename_ok THEN upload_outcome("400", Null, "none", Null)
    ELSE IF ~up.opens THEN upload_outcome("500", Null, "none", Null)
    ELSE upload_from_extracted(up, extract_album_cover(up.image, order))

\* POST /upload
UploadImage ==
    /\ pc = "input"
    /\ pc' = "responded"
    /\ \E order \in crop_orders(upload.image) :
           \E r \in {upload_image(upload, order)} :
               /\ response' = r.response
               /\ extracted' = r.extracted
               /\ escaped' = r.escaped
               /\ vectorized' = r.vectorized
    /\ UNCHANGED <<upload, image, stages, chosen, result, drawn_on, paired_on,
                   sq_corners, sq_chosen, sq_escaped, sq_deduped, sq_paired_on>>
    /\ UNCHANGED <<dedupVars, intersectVars, reformatVars, pairVars>>
    /\ UNCHANGED bestVars
    /\ UNCHANGED serviceVars

NextUpload == UploadImage

SpecUpload == InitUpload /\ [][NextUpload]_vars

\* The request succeeds: the response is a matched record or the message
\* that there is none.
Succeeded == response \in {"matched record", "No matches found."}

\* C9: in upload_image, when extract_album_cover gives no bytes and the
\* raw bytes of the upload are a valid image, those raw bytes are
\* vectorized; when it returns bytes, exactly those are vectorized; and a
\* failed extraction alone (the vectorizer and the database working) never
\* makes the request fail.
C9_FallbackOnExtractionFailure ==
    (pc = "responded" /\ upload.filename_ok /\ upload.opens) =>
        /\ (extracted = Null /\ upload.verifies) => vectorized = raw_bytes(upload.image)
        /\ extracted # Null => vectorized = extracted
        /\ (extracted = Null /\ upload.verifies /\ upload.vector = "ok"
                /\ upload.db # "raise") => Succeeded

----------------------------------------------------------------------------
(* SpecBest: find_best_corners of cover_extractor.py on every bounded list *)
(* of line pairs, and find_best_corners of square.py on every bounded      *)
(* line list.                                                              *)

\* The longest line list the pairs given to find_best_corners are drawn
\* from.
MaxBestLines == 5

\* The lines of the pairs: the four sides of a square, a vertical line
\* through its middle, and a slanted left side.
BestLines ==
    {<<0, 0, 4, 0>>, <<0, 4, 4, 4>>, <<0, 0, 0, 4>>, <<4, 0, 4, 4>>,
     <<2, 0, 2, 4>>, <<0, 2, 1, 0>>}

\* The thresholds of the two variants for a mask of 5 x 5.
BestThresholds == {proximity_threshold(5, 5), sq_proximity_threshold(5, 5)}

\* The pairs given to cover_extractor.find_best_corners are the pairs
\* that the first loop of find_most_parallel_pairs finds among the lines.
InitBest ==
    /\ pc = "input"
    /\ lines \in InjSeqsUpTo(BestLines, MaxBestLines)
    /\ threshold \in BestThresholds
    /\ given_pairs = all_line_pairs(lines, threshold)
    /\ sets_of_corners = Null
    /\ best_corners = Null
    /\ sq_given_pairs = Null
    /\ sq_sets = Null
    /\ sq_best = Null
    /\ sq_best_raised = "none"
    /\ unique_lines = Null
    /\ refiltered = Null
    /\ IdleIntersect
    /\ IdleReformat
    /\ IdlePairs
    /\ IdleCrop
    /\ IdleUpload
    /\ IdleService

\* corners = find_best_corners(given_pairs, img) of cover_extractor.py
FindBestCorners ==
    /\ pc = "input"
    /\ pc' = "best_found"
    /\ sets_of_corners' = sets_of_corners_from(given_pairs, 1, 2)
    /\ best_corners' = find_best_corners(given_pairs)
    /\ UNCHANGED <<given_pairs, sq_given_pairs, sq_sets, sq_best, sq_best_raised>>
    /\ UNCHANGED <<dedupVars, intersectVars, reformatVars, pairVars, cropVars, uploadVars>>
    /\ UNCHANGED serviceVars

\* corners = find_best_corners(lines, threshold, img) of square.py, on
\* the same lines, after cover_extractor.find_best_corners has returned.
SqFindBestCorners ==
    /\ pc = "best_found"
    /\ pc' = "sq_best_found"
    /\ \E f \in {sq_find_parallel_pairs(lines, threshold)} :
           \E r \in {sq_find_best_corners(lines, threshold)} :
               /\ sq_given_pairs' = f.line_pairs
               /\ sq_best_raised' = r.raised
               /\ IF r.raised # "none"
                  THEN /\ sq_sets' = Null
                       /\ sq_best' = Null
                  ELSE /\ sq_sets' = sq_sets_of_corners_from(f.line_pairs, 1, 1)
                       /\ \E cs \in r.rets : sq_best' = cs
    /\ UNCHANGED <<given_pairs, sets_of_corners, best_corners>>
    /\ UNCHANGED <<dedupVars, intersectVars, reformatVars, pairVars, cropVars, uploadVars>>
    /\ UNCHANGED serviceVars

NextBest == FindBestCorners \/ SqFindBestCorners

SpecBest == InitBest /\ [][NextBest]_vars

\* The distance from 1 of the width/height ratio of the corner set a is
\* smaller than that of the corner set b.
MoreSquare(a, b) == ratio_less(distance_from_1(a), distance_from_1(b))

\* ret is sets[k] for a k such that no set is more square than sets[k].
MostSquareOf(ret, sets) ==
    \E k \in 1..Len(sets) :
        /\ ret = sets[k]
        /\ \A j \in 1..Len(sets) : ~MoreSquare(sets[j], sets[k])

\* ret is sets[k] for the first k such that no set is more square than
\* sets[k].
EarliestMostSquareOf(ret, sets) ==
    \E k \in 1..Len(sets) :
        /\ ret = sets[k]
        /\ \A j \in 1..Len(sets) : ~MoreSquare(sets[j], sets[k])
        /\ \A j \in 1..(k - 1) : MoreSquare(sets[k], sets[j])

Skipped(p, q) ==
    \/ skip_combination(p, q)
    \/ find_corners_from_lines(<<p, q>>) = Null
    \/ reformat_corners(find_corners_from_lines(<<p, q>>)) = Null

\* The same for the loop body of square.find_best_corners.
SqSkipped(p, q) ==
    \/ skip_combination(p, q)
    \/ sq_find_corners_from_lines(<<p, q>>) = Null
    \/ sq_reformat_corners(sq_find_corners_from_lines(<<p, q>>)) = Null

\* C14: in find_best_corners a skipped combination never aborts the
\* search: if any combination of the pairs is valid (not skipped), the
\* result is not None; in cover_extractor.py and in square.py.
C14_SkipNeverAborts ==
    /\ pc \in {"best_found", "sq_best_found"} =>
           ((\E i, j \in 1..Len(given_pairs) :
                 i < j /\ ~Skipped(given_pairs[i], given_pairs[j]))
                => best_corners # Null)
    /\ (pc = "sq_best_found" /\ sq_best_raised = "none") =>
           ((\E i, j \in 1..Len(sq_given_pairs) :
                 ~SqSkipped(sq_given_pairs[i], sq_given_pairs[j]))
                => sq_best # Null)

\* C14 witness: the first combination of the pairs is skipped for its
\* near-parallel primary lines, another is skipped for a failed
\* intersection, a later one is valid, and both variants have returned
\* corners.
C14_Witness ==
    /\ pc = "sq_best_found"
    /\ sq_best_raised = "none"
    /\ Len(given_pairs) >= 3
    /\ skip_combination(given_pairs[1], given_pairs[2])
    /\ \E i, j \in 1..Len(given_pairs) :
           /\ i < j
           /\ ~skip_combination(given_pairs[i], given_pairs[j])
           /\ find_corners_from_lines(<<given_pairs[i], given_pairs[j]>>) = Null
    /\ \E i, j \in 1..Len(given_pairs) :
           i < j /\ ~Skipped(given_pairs[i], given_pairs[j])
    /\ best_corners # Null
    /\ sq_best # Null

----------------------------------------------------------------------------
(* SpecSearch: crop_to_square, and the detect_corners of square.py, on     *)
(* the masks in which detect_lines finds lines of BestLines.               *)

SearchImages ==
    {[width |-> 5, height |-> 5, seg |-> "mask", lines |-> ls] :
        ls \in InjSeqsUpTo(BestLines, MaxBestLines)}

InitSearch ==
    /\ pc = "input"
    /\ image \in SearchImages
    /\ stages = <<>>
    /\ chosen = Null
    /\ result = Null
    /\ escaped = "none"
    /\ drawn_on = {}
    /\ paired_on = Null
    /\ sq_deduped = Null
    /\ sq_paired_on = Null
    /\ sq_corners = Null
    /\ sq_chosen = Null
    /\ sq_escaped = "none"
    /\ IdleDedup
    /\ IdleIntersect
    /\ IdleReformat
    /\ IdlePairs
    /\ IdleUpload
    /\ IdleBest
    /\ IdleService

SpecSearch == InitSearch /\ [][NextCrop]_vars

\* C13: in cover_extractor.detect_corners the corner search runs over
\* every combination of two pairs drawn from all the unique best pairs of
\* the deduplicated lines (line_pairs of find_most_parallel_pairs), so
\* the corners it finds are the most square-like over all those
\* combinations, and it finds none only when no combination gives any.
C13_SearchOverAllPairs ==
    (pc \in {"cropped", "sq_detected"} /\ "find_best_corners" \in Range(stages)) =>
        IF sets_of_corners_from(found_pairs, 1, 2) = <<>> THEN corners = Null
        ELSE MostSquareOf(corners, sets_of_corners_from(found_pairs, 1, 2))


----------------------------------------------------------------------------
----------------------------------------------------------------------------
\* The stages of crop_to_square in the order of its text; reformat_corners
\* is the second half of corner resolution.
StageOrder ==
    <<"sharpen_image", "remove_background", "detect_lines", "filter_unique_lines",
      "find_most_parallel_pairs", "find_best_corners", "reformat_corners",
      "perspective_transform">>

\* The k-th stage has signalled failure: no mask, fewer than four unique
\* lines, no pair, no corners inside the image, no reordered corners.  An
\* empty list of detected lines is not a failure of detect_lines.
StageFailed(k) ==
    CASE k = 2 -> image.seg # "mask"
      [] k = 4 -> Len(unique_lines) < 4
      [] k = 5 -> parallel_pairs = <<>>
      [] k = 6 -> chosen = Null
      [] k = 7 -> reformatted = Null
      [] OTHER -> FALSE

\* C16: the stages of one crop_to_square call are an initial part of
\* sharpen, mask, line detection, deduplication, pair finding, corner
\* resolution, rectification, each run once and in that order, and no
\* stage runs after a stage that has signalled failure.
C16_StagesInOrderUntilFailure ==
    pc \in {"cropped", "sq_detected"} =>
        /\ Len(stages) \in 1..Len(StageOrder)
        /\ stages = SubSeq(StageOrder, 1, Len(stages))
        /\ \A k \in 1..(Len(stages) - 1) : ~StageFailed(k)

\* C16 (witness): a call that the pair finder ends, with no pair among
\* four unique lines or more.
C16_Witness ==
    /\ pc = "cropped"
    /\ Len(stages) = 5
    /\ StageFailed(5)
    /\ result = Null


----------------------------------------------------------------------------
\* How many entries of the list s are the line l.
Occurrences(s, l) == Cardinality({i \in 1..Len(s) : s[i] = l})

\* unique_lines before the last iteration of the outer loop.
AccumulatedBefore == filter_unique_lines(SubSeq(lines, 1, Len(lines) - 1), threshold)

\* The accumulated line that the last line of the input is judged a
\* duplicate of, as an index of AccumulatedBefore; 0 when there is none.
PivotOfLast == first_similar(AccumulatedBefore, lines[Len(lines)], threshold)

\* The outcome of a duplicate: of the incoming line curr and the
\* accumulated line pivot, the longer is in the accumulated list after the
\* iteration and the other is not, and pivot stays when the lengths are
\* equal.  The other entries of the list are not counted.
OneOfTheTwoRemains(before, after, curr, pivot) ==
    IF line_length_sq(curr) > line_length_sq(pivot)
    THEN /\ Occurrences(after, curr) = Occurrences(before, curr) + 1
         /\ Occurrences(after, pivot) = Occurrences(before, pivot) - 1
    ELSE /\ Occurrences(after, pivot) = Occurrences(before, pivot)
         /\ Occurrences(after, curr) = Occurrences(before, curr)

\* C17: when filter_unique_lines judges an incoming line a duplicate of
\* an accumulated line, exactly one of the two is in the accumulated list
\* afterwards: the longer one, or the accumulated one when their lengths
\* are equal.  Every iteration is the last iteration on some input.
C17_LongerOfDuplicatesKept ==
    (pc = "filtered" /\ Len(lines) >= 2 /\ PivotOfLast # 0) =>
        OneOfTheTwoRemains(AccumulatedBefore, unique_lines, lines[Len(lines)],
                           AccumulatedBefore[PivotOfLast])

\* C17 (witness): the last line is a duplicate of an accumulated line of
\* the same length and another position, and the accumulated line stays.
C17_Witness ==
    /\ pc = "filtered"
    /\ Len(lines) >= 2
    /\ PivotOfLast # 0
    /\ lines[Len(lines)] # AccumulatedBefore[PivotOfLast]
    /\ line_length_sq(lines[Len(lines)]) = line_length_sq(AccumulatedBefore[PivotOfLast])
    /\ unique_lines = AccumulatedBefore


----------------------------------------------------------------------------
\* C18: when the Hough transform finds no line in the mask, detect_lines
\* returns the empty list and raises nothing, filter_unique_lines runs on
\* it, and crop_to_square returns None without an exception.
C18_NoLinesGivesNull ==
    (pc \in {"cropped", "sq_detected"} /\ image.seg = "mask"
        /\ hough_lines(image) = "None") =>
        /\ stages = upto_mask \o upto_filter
        /\ lines = <<>>
        /\ unique_lines = <<>>
        /\ result = Null
        /\ escaped = "none"

\* C18 (witness): crop_to_square has returned on a mask without lines.
C18_Witness ==
    /\ pc = "cropped"
    /\ image.seg = "mask"
    /\ hough_lines(image) = "None"
    /\ "detect_lines" \in Range(stages)
    /\ result = Null


----------------------------------------------------------------------------
\* C19: in cover_extractor.detect_corners and in square.detect_corners
\* the pair finder is run on the list that filter_unique_lines has
\* returned and with the threshold it was given, never on the list of
\* detected lines.
C19_PairsFromUniqueLines ==
    /\ (pc \in {"cropped", "sq_detected"} /\ paired_on # Null) =>
           /\ paired_on.lines = unique_lines
           /\ paired_on.threshold = threshold
    /\ (pc = "sq_detected" /\ sq_paired_on # Null) =>
           /\ sq_paired_on.lines = sq_deduped.lines
           /\ sq_paired_on.threshold = sq_deduped.threshold


----------------------------------------------------------------------------
\* The two endpoints of the line coincide.
ZeroLength(l) == l[1] = l[3] /\ l[2] = l[4]

\* The line is one of the two lines of the pair.
InPair(l, pair) == pair[1] = l \/ pair[2] = l

\* C20: a zero-length line has the zero vector as its direction, its
\* parallel similarity to every line is 0, and it is in no pair that
\* find_most_parallel_pairs collects or returns.
C20_ZeroLengthNeverPaired ==
    pc \in {"paired", "sq_paired"} =>
        \A i \in 1..Len(lines) :
            ZeroLength(lines[i]) =>
                /\ get_direction_vector(lines[i]) = <<0, 0>>
                /\ \A j \in 1..Len(lines) :
                       /\ calculate_parallel_similarity(lines[i], lines[j])[1] = 0
                       /\ calculate_parallel_similarity(lines[j], lines[i])[1] = 0
                /\ \A k \in 1..Len(found_pairs) : ~InPair(lines[i], found_pairs[k])
                /\ \A k \in 1..Len(parallel_pairs) : ~InPair(lines[i], parallel_pairs[k])

\* C20 (witness): find_most_parallel_pairs has returned a pair on a list
\* that holds a zero-length line and a line too far from it to be skipped
\* by the proximity test.
C20_Witness ==
    /\ pc = "paired"
    /\ parallel_pairs # <<>>
    /\ \E i, j \in 1..Len(lines) :
           /\ ZeroLength(lines[i])
           /\ ~ZeroLength(lines[j])
           /\ ~lines_proximity(lines[j], lines[i], threshold)

----------------------------------------------------------------------------
\* The line m can be a partner of the line l: it differs from l, no
\* endpoint of it is nearer than the threshold to an endpoint of l, and
\* its similarity to l is above 0.
Candidate(l, m) ==
    /\ m # l
    /\ ~lines_proximity(m, l, threshold)
    /\ SimGT(calculate_parallel_similarity(l, m), <<0, 1>>)

\* The pair holds a line and the first of its candidates of the greatest
\* similarity, in the order of the list.
HoldsBestPartner(pair) ==
    \E j \in 1..Len(lines) :
        /\ lines[j] = pair[2]
        /\ Candidate(pair[1], lines[j])
        /\ \A i \in 1..Len(lines) :
               Candidate(pair[1], lines[i]) =>
                   /\ ~SimGT(calculate_parallel_similarity(pair[1], lines[i]),
                             calculate_parallel_similarity(pair[1], pair[2]))
                   /\ i < j => SimGT(calculate_parallel_similarity(pair[1], pair[2]),
                                     calculate_parallel_similarity(pair[1], lines[i]))

\* Every entry of the pair list is a pair of a line and its best partner;
\* a line without a candidate has put no entry in the list.
BestPartnersOnly(pairs) ==
    \A k \in 1..Len(pairs) : pairs[k] # Null /\ HoldsBestPartner(pairs[k])

\* C25: in find_most_parallel_pairs and in square.find_parallel_pairs the
\* partner recorded for a line is the first line of the greatest
\* similarity among the lines not close to it, and a line without such a
\* candidate contributes no entry to the pair list.
C25_BestPartnerRecorded ==
    /\ pc \in {"paired", "sq_paired"} => BestPartnersOnly(found_pairs)
    /\ pc = "sq_paired" => (sq_raised = "none" /\ BestPartnersOnly(sq_pairs))

----------------------------------------------------------------------------
\* The last line of the input replaces a shorter accumulated duplicate.
LastReplacesPivot ==
    /\ pc = "filtered"
    /\ Len(lines) >= 2
    /\ PivotOfLast # 0
    /\ line_length_sq(lines[Len(lines)]) > line_length_sq(AccumulatedBefore[PivotOfLast])

\* C26 (as claimed): when an incoming line replaces a shorter duplicate,
\* it takes the replaced line's position in the accumulated list and every
\* other accumulated line keeps its position.
C26_ReplacedInPlace ==
    LastReplacesPivot =>
        /\ Len(unique_lines) = Len(AccumulatedBefore)
        /\ \A k \in 1..Len(unique_lines) :
               unique_lines[k] = IF k = PivotOfLast THEN lines[Len(lines)]
                                 ELSE AccumulatedBefore[k]

\* C26 (amended): when an incoming line replaces a shorter duplicate, the
\* replaced line leaves the accumulated list, the incoming line is put at
\* its end, and the other accumulated lines keep their relative order.
C26_ReplacedAtEnd ==
    LastReplacesPivot =>
        /\ Len(unique_lines) = Len(AccumulatedBefore)
        /\ unique_lines[Len(unique_lines)] = lines[Len(lines)]
        /\ \A k \in 1..(Len(unique_lines) - 1) :
               unique_lines[k] = IF k < PivotOfLast THEN AccumulatedBefore[k]
                                 ELSE AccumulatedBefore[k + 1]

\* C26 (witness): the replaced line is not the last accumulated line, so
\* the end of the list and its position differ.
C26_Witness ==
    /\ LastReplacesPivot
    /\ PivotOfLast < Len(AccumulatedBefore)
    /\ unique_lines[Len(unique_lines)] = lines[Len(lines)]

----------------------------------------------------------------------------
\* The two entries are pairs of the same two lines, in the same or in the
\* opposite order.
SameTwoLines(p, q) ==
    \/ (p[1] = q[1] /\ p[2] = q[2])
    \/ (p[1] = q[2] /\ p[2] = q[1])

\* No two entries of the pair list are made of the same two lines.
NoSymmetricDuplicate(pairs) ==
    \A i, j \in 1..Len(pairs) :
        (i < j /\ pairs[i] # Null /\ pairs[j] # Null) => ~SameTwoLines(pairs[i], pairs[j])

\* C27: the pair list of find_most_parallel_pairs and the pair list of
\* square.find_parallel_pairs never hold two entries made of the same two
\* lines, in either order.
C27_NoSymmetricPairs ==
    /\ pc \in {"paired", "sq_paired"} =>
           (NoSymmetricDuplicate(found_pairs) /\ NoSymmetricDuplicate(parallel_pairs))
    /\ pc = "sq_paired" => NoSymmetricDuplicate(sq_pairs)

\* C27 (witness): both pair lists hold a pair whose second line has the
\* first as its best partner, so the reversed pair came up and was not
\* added.
C27_Witness ==
    /\ pc = "sq_paired"
    /\ sq_raised = "none"
    /\ \E k \in 1..Len(found_pairs) :
           HoldsBestPartner(<<found_pairs[k][2], found_pairs[k][1]>>)
    /\ \E k \in 1..Len(sq_pairs) :
           /\ sq_pairs[k] # Null
           /\ HoldsBestPartner(<<sq_pairs[k][2], sq_pairs[k][1]>>)

----------------------------------------------------------------------------
\* C28: reformat_corners applied to a corner set that reformat_corners
\* has returned gives the same four points in the same order: the corners
\* that find_best_corners returns are left as they are by a second
\* reordering, and the reordering that crop_to_square performs on what
\* detect_corners has returned never gives None and never changes them.
C28_SecondReorderingIsIdentity ==
    pc \in {"cropped", "sq_detected"} =>
        /\ corners # Null => reformat_corners(corners) = corners
        /\ chosen # Null => (reformatted # Null /\ reformatted = chosen)

\* C28 (witness): crop_to_square has reordered the corners that
\* detect_corners returned, and find_corners_from_lines had found them in
\* another order.
C28_Witness ==
    /\ pc = "cropped"
    /\ chosen # Null
    /\ reformatted = chosen
    /\ \E i, j \in 1..Len(parallel_pairs) :
           /\ find_corners_from_lines(<<parallel_pairs[i], parallel_pairs[j]>>) # Null
           /\ find_corners_from_lines(<<parallel_pairs[i], parallel_pairs[j]>>) # chosen
           /\ reformat_corners(find_corners_from_lines(<<parallel_pairs[i], parallel_pairs[j]>>))
                  = chosen

----------------------------------------------------------------------------
\* The two pairs hold four lines, no two of them the same.
FourDistinctLines(p, q) ==
    Cardinality({p[1], p[2], q[1], q[2]}) = 4

\* C29: in find_best_corners a combination of two pairs that share a line
\* appends nothing to sets_of_corners, so a corner set that is returned
\* comes from a combination of four lines, no two of them the same.
C29_FourDistinctLines ==
    pc \in {"best_found", "sq_best_found"} =>
        /\ \A i, j \in 1..Len(given_pairs) :
               (i < j /\ ~FourDistinctLines(given_pairs[i], given_pairs[j]))
                   => corner_set_of(given_pairs[i], given_pairs[j]) = <<>>
        /\ best_corners # Null =>
               \E i, j \in 1..Len(given_pairs) :
                   /\ i < j
                   /\ FourDistinctLines(given_pairs[i], given_pairs[j])
                   /\ corner_set_of(given_pairs[i], given_pairs[j]) = <<best_corners>>

\* C29 (witness): a corner set is returned, and a combination of two
\* pairs that share a line has passed the two tests at the top of the loop
\* and has reached find_corners_from_lines.
C29_Witness ==
    /\ pc = "best_found"
    /\ best_corners # Null
    /\ \E i, j \in 1..Len(given_pairs) :
           /\ i < j
           /\ ~FourDistinctLines(given_pairs[i], given_pairs[j])
           /\ ~skip_combination(given_pairs[i], given_pairs[j])

----------------------------------------------------------------------------
(* SpecShared: two calls of crop_to_square at the same time, in two        *)
(* processes that share the directory DEBUGGING_DIR.  A call is cut at     *)
(* its save_image calls: it decodes, makes the mask, and finishes.         *)

Callers == {1, 2}

\* The snapshot files a call writes, by the step that writes them.
SnapshotFiles ==
    {"1-original_image.png", "2-sharpened_image.png", "3-background_removed.png",
     "5-detected_lines.png", "6-corners_detected.png"}

\* A variant of stage_input that loads the snapshot of the array when the
\* directory holds one.
stage_input_from_snapshot(own, dir, file) ==
    IF dir[file] # Null THEN dir[file] ELSE own

\* The array a stage works on: the array the stage before has returned to
\* the call; the directory and the snapshot of that array are not read.
stage_input(own, dir, file) == own

\* save_image(image, filename): the file holds the image afterwards, or
\* is as before when the save fails (OSError, IOError and ValueError are
\* caught and logged).
save_image(dir, file, arr, saved) ==
    IF saved THEN [dir EXCEPT ![file] = arr] ELSE dir

\* A call that has not started, in a process that has not yet imported
\* cover_extractor.
new_call(img) ==
    [image |-> img, at |-> "unloaded", img_arr |-> Null, mask |-> Null,
     result |-> Null, escaped |-> "none"]

\* Two full squares of different sizes, a mask without lines, and two
\* images whose segmentation fails.
SharedImages ==
    {[width |-> 5, height |-> 5, seg |-> "mask", lines |-> ls] :
        ls \in {<<>>,
                <<<<0, 0, 4, 0>>, <<0, 4, 4, 4>>, <<0, 0, 0, 4>>, <<4, 0, 4, 4>>>>,
                <<<<0, 0, 4, 0>>, <<0, 4, 4, 4>>, <<0, 0, 0, 4>>, <<2, 0, 2, 4>>>>}}
    \cup {[width |-> 5, height |-> 5, seg |-> f, lines |-> <<>>] :
             f \in {"RuntimeError", "ValueError"}}

InitShared ==
    /\ pc = "input"
    /\ calls \in [Callers -> {new_call(img) : img \in SharedImages}]
    /\ scratch = [f \in SnapshotFiles |-> Null]
    /\ albums = Null
    /\ artists = Null
    /\ requests = Null
    /\ tmp_files = Null
    /\ csv_upload = Null
    /\ IdleDedup
    /\ IdleIntersect
    /\ IdleReformat
    /\ IdlePairs
    /\ IdleCrop
    /\ IdleUpload
    /\ IdleBest

UnchangedByCalls ==
    /\ pc' = pc
    /\ UNCHANGED <<albums, artists, requests, tmp_files, csv_upload>>
    /\ UNCHANGED <<dedupVars, intersectVars, reformatVars, pairVars, cropVars, uploadVars>>
    /\ UNCHANGED bestVars

\* The import of cover_extractor in the process of the call: every file
\* of DEBUGGING_DIR is removed.
ImportModule(p) ==
    /\ calls[p].at = "unloaded"
    /\ calls' = [calls EXCEPT ![p].at = "start"]
    /\ scratch' = [f \in SnapshotFiles |-> Null]
    /\ UnchangedByCalls

\* img_arr = np.array(image); save_image(img_arr, "1-original_image.png")
Decode(p) ==
    /\ calls[p].at = "start"
    /\ calls' = [calls EXCEPT ![p].at = "decoded", ![p].img_arr = calls[p].image]
    /\ \E saved \in BOOLEAN :
           scratch' = save_image(scratch, "1-original_image.png", calls[p].image, saved)
    /\ UnchangedByCalls

\* sharpened_img = sharpen_image(img_arr) and remove_background(
\* sharpened_img), with their snapshots; the mask is saved only when the
\* segmentation has returned one.
MakeMask(p) ==
    /\ calls[p].at = "decoded"
    /\ \E src \in {stage_input(calls[p].img_arr, scratch, "1-original_image.png")} :
       \E saved \in BOOLEAN :
           /\ calls' = [calls EXCEPT ![p].at = "masked", ![p].mask = src]
           /\ scratch' =
                  IF src.seg = "mask"
                  THEN save_image(save_image(scratch, "2-sharpened_image.png", src, saved),
                                  "3-background_removed.png", src, saved)
                  ELSE save_image(scratch, "2-sharpened_image.png", src, saved)
    /\ UnchangedByCalls

\* The rest of crop_to_square: the thresholding of the mask,
\* detect_corners with the snapshots of detect_lines and of
\* find_corners_from_lines, reformat_corners and perspective_transform.
Finish(p) ==
    /\ calls[p].at = "masked"
    /\ \E src \in {stage_input(calls[p].mask, scratch, "3-background_removed.png")} :
       \E order \in crop_orders(src) :
       \E c \in {crop_from_mask(background_stage(calls[p].mask.seg), src, order)} :
       \E saved \in BOOLEAN :
           /\ calls' = [calls EXCEPT ![p].at = "done", ![p].result = c.ret,
                                     ![p].escaped = c.escaped]
           /\ scratch' =
                  IF "line_img" \in drawn_by_stages(c.detect.stages, src.lines,
                                                    c.detect.best_pairs)
                  THEN save_image(save_image(scratch, "5-detected_lines.png", src, saved),
                                  "6-corners_detected.png", src, saved)
                  ELSE scratch
    /\ UnchangedByCalls

NextShared ==
    \E p \in Callers : ImportModule(p) \/ Decode(p) \/ MakeMask(p) \/ Finish(p)

SpecShared == InitShared /\ [][NextShared]_vars

\* What crop_to_square returns, or the exception that leaves it, when it
\* is called on the image with no other call in progress.
AloneOutcomes(img) ==
    {<<crop_to_square(img, order).ret, crop_to_square(img, order).escaped>> :
        order \in crop_orders(img)}

----------------------------------------------------------------------------
(* SpecDelete: delete_album requests at the same time, each on its own     *)
(* connection and in its own transaction.  The database runs the           *)
(* transactions at its default isolation level, READ COMMITTED: a          *)
(* statement sees the rows committed before it began and the changes of    *)
(* its own transaction, and a DELETE waits for the transaction that has    *)
(* deleted the same row to end.  A request is cut at its awaits.           *)

MaxAlbumId == 3

AlbumIds == 1..MaxAlbumId

ArtistIds == {1, 2}

Requesters == {1, 2}

\* The rows of the table albums with the given ids and artists.
album_rows(artist_of) ==
    {[id |-> a, artist_id |-> artist_of[a]] : a \in {b \in AlbumIds : artist_of[b] # 0}}

\* A request that has not started.
new_request(album_id) ==
    [album_id |-> album_id, at |-> "start", artist_id |-> Null,
     deleted_albums |-> {}, deleted_artists |-> {},
     remaining_albums |-> Null, response |-> Null]

InitDelete ==
    /\ pc = "input"
    /\ \E artist_of \in [AlbumIds -> ArtistIds \cup {0}] :
           /\ albums = album_rows(artist_of)
           /\ artists = {artist_of[a] : a \in AlbumIds} \ {0}
    /\ requests \in [Requesters -> {new_request(a) : a \in AlbumIds}]
    /\ calls = Null
    /\ scratch = Null
    /\ tmp_files = Null
    /\ csv_upload = Null
    /\ IdleDedup
    /\ IdleIntersect
    /\ IdleReformat
    /\ IdlePairs
    /\ IdleCrop
    /\ IdleUpload
    /\ IdleBest

UnchangedByRequests ==
    /\ pc' = pc
    /\ UNCHANGED <<calls, scratch, tmp_files, csv_upload>>
    /\ UNCHANGED <<dedupVars, intersectVars, reformatVars, pairVars, cropVars, uploadVars>>
    /\ UNCHANGED bestVars

\* The rows of albums a statement of the request sees.
visible_albums(r) == albums \ requests[r].deleted_albums

\* The rows another transaction in progress has deleted and holds locked.
locked_albums(r) ==
    UNION {requests[q].deleted_albums : q \in {x \in Requesters : x # r /\ requests[x].at # "done"}}

locked_artists(r) ==
    UNION {requests[q].deleted_artists : q \in {x \in Requesters : x # r /\ requests[x].at # "done"}}

\* except Exception as e: raise HTTPException(status_code=500,
\* detail=str(e)).  HTTPException is an Exception, so the handler takes
\* the 404 raised inside the try as well.
handler_response(raised) == [status |-> 500, detail |-> raised]

\* The request ends with an exception raised inside the transaction: the
\* transaction is rolled back and the handler answers.
rolled_back(req, raised) ==
    [req EXCEPT !.at = "done", !.deleted_albums = {}, !.deleted_artists = {},
                !.response = handler_response(raised)]

\* SELECT artist_id FROM albums WHERE id = $1, and the 404 when no row
\* is returned.
SelectArtist(r) ==
    /\ requests[r].at = "start"
    /\ \E rows \in {{row \in visible_albums(r) : row.id = requests[r].album_id}} :
           requests' =
               IF rows = {}
               THEN [requests EXCEPT ![r] = rolled_back(requests[r], "404: Album not found")]
               ELSE [requests EXCEPT ![r].at = "selected",
                                     ![r].artist_id = (CHOOSE row \in rows : TRUE).artist_id]
    /\ UNCHANGED <<albums, artists>>
    /\ UnchangedByRequests

\* DELETE FROM albums WHERE id = $1: it waits while another transaction
\* holds the row, and deletes the row if it is still there.
DeleteAlbum(r) ==
    /\ requests[r].at = "selected"
    /\ \A row \in locked_albums(r) : row.id # requests[r].album_id
    /\ requests' = [requests EXCEPT
           ![r].at = "deleted",
           ![r].deleted_albums = {row \in albums : row.id = requests[r].album_id}]
    /\ UNCHANGED <<albums, artists>>
    /\ UnchangedByRequests

\* SELECT COUNT(*) FROM albums WHERE artist_id = $1
CountRemaining(r) ==
    /\ requests[r].at = "deleted"
    /\ requests' = [requests EXCEPT
           ![r].at = "counted",
           ![r].remaining_albums =
               Cardinality({row \in visible_albums(r) :
                               row.artist_id = requests[r].artist_id})]
    /\ UNCHANGED <<albums, artists>>
    /\ UnchangedByRequests

\* if remaining_albums == 0: DELETE FROM artists WHERE id = $1
DeleteArtist(r) ==
    /\ requests[r].at = "counted"
    /\ requests[r].remaining_albums = 0 => requests[r].artist_id \notin locked_artists(r)
    /\ requests' = [requests EXCEPT
           ![r].at = "finishing",
           ![r].deleted_artists =
               IF requests[r].remaining_albums = 0
               THEN artists \cap {requests[r].artist_id}
               ELSE {}]
    /\ UNCHANGED <<albums, artists>>
    /\ UnchangedByRequests

\* The end of the transaction block: the deletions are committed and the
\* success message is returned.
Commit(r) ==
    /\ requests[r].at = "finishing"
    /\ albums' = albums \ requests[r].deleted_albums
    /\ artists' = artists \ requests[r].deleted_artists
    /\ requests' = [requests EXCEPT
           ![r].at = "done",
           ![r].response = [status |-> 200, detail |-> "Album deleted successfully."]]
    /\ UnchangedByRequests

\* A statement or the commit fails (the connection is lost, the server
\* ends the statement): the transaction is rolled back.
StatementFails(r) ==
    /\ requests[r].at \in {"start", "selected", "deleted", "counted", "finishing"}
    /\ requests' = [requests EXCEPT ![r] = rolled_back(requests[r], "PostgresError")]
    /\ UNCHANGED <<albums, artists>>
    /\ UnchangedByRequests

NextDelete ==
    \E r \in Requesters :
        \/ SelectArtist(r)
        \/ DeleteAlbum(r)
        \/ CountRemaining(r)
        \/ DeleteArtist(r)
        \/ Commit(r)
        \/ StatementFails(r)

SpecDelete == InitDelete /\ [][NextDelete]_vars

\* The request has ended and found no row for its album id.
EndedWithoutRow(r) ==
    /\ requests[r].at = "done"
    /\ requests[r].artist_id = Null
    /\ requests[r].response.detail = "404: Album not found"

\* C22: a delete_album request whose album id has no row in albums is
\* answered with the status 404 and deletes nothing.
C22_MissingAlbumGives404 ==
    \A r \in Requesters :
        EndedWithoutRow(r) =>
            /\ requests[r].response.status = 404
            /\ requests[r].deleted_albums = {}
            /\ requests[r].deleted_artists = {}

\* The request r ends with success in this step.
Succeeds(r) ==
    /\ requests[r].at # "done"
    /\ requests'[r].at = "done"
    /\ requests'[r].response.status = 200

\* The albums of the artist other than the album of the request.
OtherAlbums(rows, r) ==
    {row \in rows : row.artist_id = requests[r].artist_id /\ row.id # requests[r].album_id}

\* C23: a delete_album request that succeeds removes the row of the album
\* and removes the row of the artist exactly when the artist has no other
\* album left; a request that does not succeed changes neither table.
C23_AlbumAndArtistTogether ==
    [][/\ \A r \in Requesters :
              Succeeds(r) =>
                  /\ \A row \in albums' : row.id # requests[r].album_id
                  /\ requests[r].artist_id \in artists =>
                         (requests[r].artist_id \notin artists' <=> OtherAlbums(albums, r) = {})
       /\ (albums' # albums \/ artists' # artists) => \E r \in Requesters : Succeeds(r)]_vars

\* C30: when all delete_album requests have ended, an artist has a row
\* exactly if an album of the artist has a row.
C30_NoArtistWithoutAlbums ==
    (\A r \in Requesters : requests[r].at = "done") =>
        \A x \in ArtistIds : x \in artists <=> \E row \in albums : row.artist_id = x

----------------------------------------------------------------------------
(* SpecCsv: one upload_csv request, cut at its awaits, with the files      *)
(* under /tmp that earlier requests have left.                             *)

\* The names of uploaded files, as stem and extension.
UploadNames ==
    {[stem |-> s, ext |-> e] : s \in {"a", "b"}, e \in {".csv", ".txt"}}

\* What an uploaded file holds: album rows, album rows without the column
\* 'Released', or bytes that read_csv cannot parse.
CsvContents == {"albums", "no_released", "not_csv"}

\* The files an earlier request can have left under /tmp.
LeftFiles == {[name |-> n, contents |-> "albums"] : n \in {m \in UploadNames : m.ext = ".csv"}}

\* file.filename.endswith(".csv")
ends_with_csv(name) == name.ext = ".csv"

\* The first part of import_albums, up to its first await: pd.read_csv
\* and the test for the column 'Released'.
read_outcome(contents) ==
    IF contents = "albums" THEN "none" ELSE "ValueError"

\* except Exception as e: raise HTTPException(status_code=500, ...)
csv_handler_response(raised) ==
    [status |-> 500, detail |-> <<"Failed to import albums", raised>>]

\* os.remove(temp_file_path)
os_remove(files, name) == {f \in files : f.name # name}

\* open(temp_file_path, "wb") and temp_file.write(contents)
write_file(files, name, contents) ==
    os_remove(files, name) \cup {[name |-> name, contents |-> contents]}

new_upload(name, contents) ==
    [filename |-> name, contents |-> contents, at |-> "start",
     saved |-> FALSE, response |-> Null]

InitCsv ==
    /\ pc = "input"
    /\ tmp_files \in SUBSET LeftFiles
    /\ csv_upload \in {new_upload(n, c) : n \in UploadNames, c \in CsvContents}
    /\ calls = Null
    /\ scratch = Null
    /\ albums = Null
    /\ artists = Null
    /\ requests = Null
    /\ IdleDedup
    /\ IdleIntersect
    /\ IdleReformat
    /\ IdlePairs
    /\ IdleCrop
    /\ IdleUpload
    /\ IdleBest

UnchangedByCsv ==
    /\ pc' = pc
    /\ UNCHANGED <<calls, scratch, albums, artists, requests>>
    /\ UNCHANGED <<dedupVars, intersectVars, reformatVars, pairVars, cropVars, uploadVars>>
    /\ UNCHANGED bestVars

\* The request is answered.
answered(req, answer) == [req EXCEPT !.at = "done", !.response = answer]

\* upload_csv up to the first await of import_albums: the test of the
\* extension, the temporary file, and the reading of the file.
SaveTemp ==
    /\ csv_upload.at = "start"
    /\ \/ /\ ~ends_with_csv(csv_upload.filename)
          /\ csv_upload' = answered(csv_upload,
                 [status |-> 400, detail |-> "Only .csv files are supported."])
          /\ tmp_files' = tmp_files
       \/ /\ ends_with_csv(csv_upload.filename)
          /\ csv_upload' = answered(csv_upload, csv_handler_response("OSError"))
          /\ tmp_files' = tmp_files
       \/ /\ ends_with_csv(csv_upload.filename)
          /\ tmp_files' = write_file(tmp_files, csv_upload.filename, csv_upload.contents)
          /\ \E raised \in {read_outcome(csv_upload.contents)} :
                 csv_upload' =
                     IF raised = "none"
                     THEN [csv_upload EXCEPT !.at = "importing", !.saved = TRUE]
                     ELSE answered([csv_upload EXCEPT !.saved = TRUE],
                                   csv_handler_response(raised))
    /\ UnchangedByCsv

\* The transaction of import_albums, then os.remove(temp_file_path) when
\* import_albums has returned.
ImportRows ==
    /\ csv_upload.at = "importing"
    /\ \/ /\ csv_upload' = answered(csv_upload, csv_handler_response("RuntimeError"))
          /\ tmp_files' = tmp_files
       \/ /\ csv_upload' = [csv_upload EXCEPT !.at = "vectorizing"]
          /\ tmp_files' = os_remove(tmp_files, csv_upload.filename)
    /\ UnchangedByCsv

\* await vectorize_albums() and the answer.
VectorizeAlbums ==
    /\ csv_upload.at = "vectorizing"
    /\ \/ csv_upload' = answered(csv_upload, csv_handler_response("Exception"))
       \/ csv_upload' = answered(csv_upload,
              [status |-> 200,
               detail |-> "Albums imported successfully and covers vectorized."])
    /\ tmp_files' = tmp_files
    /\ UnchangedByCsv

NextCsv == SaveTemp \/ ImportRows \/ VectorizeAlbums

SpecCsv == InitCsv /\ [][NextCsv]_vars

\* C24: when an upload_csv request that has saved its temporary file
\* has ended, with success or with an error, /tmp holds no file of that
\* name.
C24_TempFileDeleted ==
    (csv_upload.at = "done" /\ csv_upload.saved) =>
        \A f \in tmp_files : f.name # csv_upload.filename

====
